---------------------------- MODULE Spec2Model ----------------------------
(***************************************************************************)
(* A model of the SIMOC agent model: the storage engine                    *)
(* (StorageAgent), the per-step currency exchange (GeneralAgent.step), the *)
(* plant life cycle (PlantAgent.step) and the scheduler                    *)
(* (PrioritizedRandomActivation / AgentModel.step).                        *)
(*                                                                         *)
(* Python floats are modelled as exact rationals <<n, d>> in lowest terms  *)
(* with d > 0, so that proportional splits and ratios are computed, not    *)
(* assumed.                                                                *)
(***************************************************************************)
EXTENDS Integers, Sequences, FiniteSets, TLC

VARIABLES
    balance,    \* balance[a][c]: StorageAgent attribute self[c] of agent a
    amount,     \* amount[a]: BaseAgent.amount
    storage_ratios, \* model.storage_ratios: key -> (currency -> ratio), the shared cache
    call,       \* the last direct call of a StorageAgent method: input, return value, error
    ncalls,     \* number of direct calls made (bounded by MaxCalls)
    cfg,        \* the configuration of the run, fixed at construction
    time,       \* model.time, in minutes
    steps,      \* scheduler.steps (model.step_num)
    is_terminated,      \* model.is_terminated
    termination_reason, \* model.termination_reason
    agents,     \* scheduler.agents, in insertion order
    queue,      \* the agents still to be stepped in the running tick
    pc,         \* "idle" between ticks, "stepping" inside one, "raised" after an exception
    stepped,    \* the agents stepped so far in the running tick, in order
    active,     \* active[a]: BaseAgent.active
    cause_of_death,     \* cause_of_death[a]
    age,        \* age[a]: BaseAgent.age
    deprive,    \* deprive[a][attr]: the remaining deprivation budget
    buffer,     \* buffer[a][attr]: the criteria buffer countdown
    step_exchange_buffer, \* the ledger of the last step of a: {[prefix, currency, storage, amount]}
    missing_desired,    \* missing_desired[a]: "unset" until the attribute is first assigned
    growth,     \* growth[a]: the PlantAgent fields
    reads,      \* the cache reads of the running tick: {[reader, key, currency, value]}
    raised,     \* the exception that stopped the run, or "none"
    deficits,   \* deficits[a][attr]: consecutive deficit steps (observation only)
    db,         \* the saved snapshots: branch versions, states, row locks
    threads,    \* threads[t]: a thread that loads, steps and snapshots a model
    events,     \* events[a][event_type]: the active instances, [magnitude, duration]
    event_multipliers,  \* event_multipliers[a][event_type]
    random_state,       \* model.random_state: the generator state, Unseeded for seed None
    run,        \* 0: a single run; 1, 2: the first and second run of a repeated one
    history,    \* the observations of the first run, one per call of AgentModel.step
    initial     \* the state after construction, kept to construct the second run

vars ==
    <<balance, amount, storage_ratios, call, ncalls, cfg, time, steps, is_terminated,
      termination_reason, agents, queue, pc, stepped, active, cause_of_death, age,
      deprive, buffer, step_exchange_buffer, missing_desired, growth, reads, raised,
      deficits, db, threads, events, event_multipliers, random_state, run, history,
      initial>>

---------------------------------------------------------------------------
(* Exact rational arithmetic standing for Python float arithmetic.         *)

Abs(i) == IF i < 0 THEN -i ELSE i

RECURSIVE GCD(_, _)
GCD(a, b) == IF b = 0 THEN a ELSE GCD(b, a % b)

\* the rational n/d in lowest terms (d # 0)
R(n, d) ==
    LET s == IF d < 0 THEN -1 ELSE 1
        g == GCD(Abs(n), Abs(d))
    IN  <<(s * n) \div g, (s * d) \div g>>

RInt(i) == <<i, 1>>
Zero == RInt(0)
One == RInt(1)
\* sums and products cancel common factors first, so that the intermediate
\* integers stay small
RAddOver(x, y, g) == R(x[1] * (y[2] \div g) + y[1] * (x[2] \div g), (x[2] \div g) * y[2])
RAdd(x, y) == RAddOver(x, y, GCD(x[2], y[2]))
RNeg(x) == <<-x[1], x[2]>>
RSub(x, y) == RAdd(x, RNeg(y))
RMulOver(x, y, g, h) ==
    R((x[1] \div g) * (y[1] \div h), (x[2] \div h) * (y[2] \div g))
RMul(x, y) ==
    IF x[1] = 0 \/ y[1] = 0 THEN R(0, x[2] * y[2])
    ELSE RMulOver(x, y, GCD(Abs(x[1]), y[2]), GCD(Abs(y[1]), x[2]))
\* x / y; a zero divisor gives DivError, which stands for ZeroDivisionError
DivError == <<1, 0>>
RDiv(x, y) == IF y[1] = 0 THEN DivError ELSE RMul(x, R(y[2], y[1]))
RCmp(x, y, g) == x[1] * (y[2] \div g) - y[1] * (x[2] \div g)
RLt(x, y) == RCmp(x, y, GCD(x[2], y[2])) < 0
RLe(x, y) == RCmp(x, y, GCD(x[2], y[2])) <= 0
RMin(x, y) == IF RLe(x, y) THEN x ELSE y
RMax(x, y) == IF RLe(x, y) THEN y ELSE x
RAbs(x) == <<Abs(x[1]), x[2]>>
RFloor(x) == x[1] \div x[2]                     \* math.floor

\* sum(f.values()) for a function f with rational values
RECURSIVE RSum(_)
RSum(f) ==
    IF DOMAIN f = {} THEN Zero
    ELSE LET k == CHOOSE k \in DOMAIN f : TRUE
         IN  RAdd(f[k], RSum([j \in DOMAIN f \ {k} |-> f[j]]))

\* np.prod(list(f.values())) for a function f with rational values
RECURSIVE RProd(_)
RProd(f) ==
    IF DOMAIN f = {} THEN One
    ELSE LET k == CHOOSE k \in DOMAIN f : TRUE
         IN  RMul(f[k], RProd([j \in DOMAIN f \ {k} |-> f[j]]))

---------------------------------------------------------------------------
(* The currency catalog (model.currency_dict): each currency names its     *)
(* class, each class lists its member currencies.                          *)

Currencies == {"potable", "grey", "biomass"}
CurrencyClasses == {"water", "food"}
Views == Currencies \cup CurrencyClasses

currency_class ==
    [c \in Currencies |-> IF c \in {"potable", "grey"} THEN "water" ELSE "food"]

currency_dict ==
    [v \in Views |->
        IF v \in Currencies
        THEN [type |-> "currency", class |-> currency_class[v], currencies |-> {v}]
        ELSE [type |-> "currency_class", class |-> v,
              currencies |-> {c \in Currencies : currency_class[c] = v}]]


---------------------------------------------------------------------------
(* The agent catalog (agent_desc): storage capacities per agent type.      *)

AgentTypes == {"water_storage", "food_storage", "human", "plant"}

\* attrs['char_capacity_<currency>'] of each agent type (capacity of one instance)
char_capacity ==
    [a \in AgentTypes |->
        CASE a = "water_storage" -> [c \in {"potable", "grey"} |->
                                        IF c = "potable" THEN 100 ELSE 50]
          [] a = "food_storage" -> [c \in {"biomass"} |-> 100]
          [] a = "plant" -> [c \in {"biomass"} |-> 10]
          [] OTHER -> <<>>]

\* StorageAgent.__init__: has_storage
has_storage(a) == DOMAIN char_capacity[a] # {}

\* BaseAgent.add_currency_to_dict applied to every capacity currency: the
\* currency and, recursively, its class
agent_currency_dict(a) ==
    DOMAIN char_capacity[a] \cup {currency_class[c] : c \in DOMAIN char_capacity[a]}

---------------------------------------------------------------------------
(* StorageAgent.view and StorageAgent.increment                            *)

\* the keys of StorageAgent.view(view): the currency itself, or the member
\* currencies of the class that the storage holds (`if c in self`)
view_currencies(bal, view) ==
    IF currency_dict[view].type = "currency"
    THEN {view}
    ELSE {c \in currency_dict[view].currencies : c \in DOMAIN bal}

\* the guard of the positive branch: the view must be a currency
is_currency(view) == currency_dict[view].type = "currency"

\* mutant of reject_class_view: the error is swallowed and {} returned
reject_class_view_silent(bal) == [bal |-> bal, flow |-> <<>>, err |-> "none"]

\* positive branch, view not a currency: raise ValueError
reject_class_view(bal) == [bal |-> bal, flow |-> <<>>, err |-> "ValueError"]

\* positive branch: currency_amount = min(self[currency] + increment_amount, capacity)
positive_amount(b, inc, capacity) == RMin(RAdd(b, inc), capacity)

\* the value returned for a currency: currency_increment_actual =
\* self[currency] - currency_amount (old balance minus new balance)
increment_actual(b, currency_amount) == RSub(b, currency_amount)

\* mutant of view_is_empty: `<` for `<=`
view_is_empty_strict(total_view_amount) == RLt(total_view_amount, Zero)

\* negative branch guard: if total_view_amount <= 0: return zeros
view_is_empty(total_view_amount) == RLe(total_view_amount, Zero)

\* negative branch: ratios[c] = self[c] / total_view_amount
view_ratio(b, total_view_amount) == RDiv(b, total_view_amount)

\* mutant of negative_amount: the floor at 0 is missing
negative_amount_unfloored(b, inc, ratio) == RAdd(b, RMul(inc, ratio))

\* negative branch: currency_amount = max(self[currency] + increment_amount * ratio, 0)
negative_amount(b, inc, ratio) == RMax(RAdd(b, RMul(inc, ratio)), Zero)

\* StorageAgent.increment on a storage with balances bal, per-instance
\* capacities cap and n instances. Returns the new balances, the returned
\* dict (flow) and the exception raised, if any.
increment(bal, cap, n, view, inc) ==
    IF RLt(Zero, inc)
    THEN IF ~is_currency(view)
         THEN reject_class_view(bal)
         ELSE LET capacity == RInt(cap[view] * n)
                  currency_amount == positive_amount(bal[view], inc, capacity)
              IN  [bal |-> [bal EXCEPT ![view] = currency_amount],
                   flow |-> [c \in {view} |-> increment_actual(bal[view], currency_amount)],
                   err |-> "none"]
    ELSE IF RLt(inc, Zero)
    THEN LET currencies == view_currencies(bal, view)
             total_view_amount == RSum([c \in currencies |-> bal[c]])
         IN  IF view_is_empty(total_view_amount)
             THEN [bal |-> bal, flow |-> [c \in currencies |-> Zero], err |-> "none"]
             ELSE IF total_view_amount = Zero
             THEN [bal |-> bal, flow |-> <<>>, err |-> "ZeroDivisionError"]
             ELSE LET new == [c \in currencies |->
                                negative_amount(bal[c], inc,
                                                view_ratio(bal[c], total_view_amount))]
                  IN  [bal |-> [c \in DOMAIN bal |->
                                    IF c \in currencies THEN new[c] ELSE bal[c]],
                       flow |-> [c \in currencies |-> increment_actual(bal[c], new[c])],
                       err |-> "none"]
    ELSE [bal |-> bal, flow |-> <<>>, err |-> "none"]

---------------------------------------------------------------------------
(* StorageAgent._calculate_storage_ratios                                  *)

\* the order of the char_capacity_* attributes in attrs
capacity_order(a) ==
    CASE a = "water_storage" -> <<"potable", "grey">>
      [] a \in {"plant", "food_storage"} -> <<"biomass">>
      [] OTHER -> <<>>

\* the running total of the loop over attrs: `if not total: total = storage_value
\* else: total += storage_value` (total is None or a quantity; a zero quantity
\* is falsy). All capacities of one storage carry the same unit.
RECURSIVE ratio_total(_, _, _)
ratio_total(order, bal, total) ==
    IF order = <<>> THEN total
    ELSE LET storage_value == bal[Head(order)]
         IN  ratio_total(Tail(order), bal,
                         IF total = Zero THEN storage_value ELSE RAdd(total, storage_value))

\* mutant of ratio_is_positive: `>=` for `>`
ratio_is_nonnegative(value) == RLe(Zero, value)

\* the test `if temp[currency] > 0` that selects the division
ratio_is_positive(value) == RLt(Zero, value)

\* the entry written for one storage: currency -> ratio
calculate_storage_ratios(order, bal) ==
    LET total == ratio_total(order, bal, Zero)
    IN  [c \in DOMAIN bal |->
            IF ratio_is_positive(bal[c]) THEN RDiv(bal[c], total) ELSE Zero]

\* the key of the cache entry written by StorageAgent._calculate_storage_ratios
storage_id(a) == a

\* StorageAgent.step: `if self.has_storage: self._calculate_storage_ratios()`
storage_step(a, ratios, bal) ==
    IF has_storage(a)
    THEN [ratios EXCEPT ![storage_id(a)] = calculate_storage_ratios(capacity_order(a), bal)]
    ELSE ratios

\* StorageAgent.__init__ ends with self._calculate_storage_ratios()
InitRatios(bal) ==
    [k \in {storage_id(a) : a \in AgentTypes} |->
        LET a == CHOOSE a \in AgentTypes : storage_id(a) = k
        IN  calculate_storage_ratios(capacity_order(a), bal[a])]

---------------------------------------------------------------------------
(* The agent catalog, continued: classes, flows and thresholds.            *)

\* AgentType.agent_class of each agent type
agent_class ==
    [a \in AgentTypes |->
        CASE a \in {"water_storage", "food_storage"} -> "storage"
          [] a = "human" -> "inhabitants"
          [] OTHER -> "plants"]

\* the agents that are PlantAgent instances
is_plant(a) == a = "plant"

\* model.day_length_hours, scaled down (int(day_length_hours) is 24 on earth)
DayLengthHours == 2

\* model.hours_per_step = minutes_per_step / 60
hours_per_step == cfg.minutes_per_step \div 60

NoCriteria == [cr_name |-> "", cr_limit |-> "", cr_value |-> Zero, cr_buffer |-> 0]

\* the criteria of a harvest output: the plant's flag grown is set
GrownCriteria == [cr_name |-> "grown", cr_limit |-> "=", cr_value |-> RInt(1), cr_buffer |-> 0]

\* the human's in_biomass attribute, declared by the configurations that
\* give it a value: drawn from the food storage, then from the plant
food_flows ==
    IF cfg.food_value = 0 THEN <<>>
    ELSE << [attr |-> "in_biomass", prefix |-> "in", currency |-> "biomass",
             value |-> cfg.food_value, conns |-> <<"food_storage", "plant">>,
             is_required |-> cfg.food_required, deprive_value |-> 0, requires |-> {},
             criteria |-> NoCriteria] >>

\* the in_* and out_* attributes of an agent type with their attr_details,
\* in the order of attrs
flows(a) ==
    CASE a = "human" ->
            << [attr |-> "in_potable", prefix |-> "in", currency |-> "potable", value |-> 2,
                conns |-> <<"water_storage">>, is_required |-> "",
                deprive_value |-> cfg.deprive_value, requires |-> {}, criteria |-> NoCriteria] >>
            \o food_flows \o
            << [attr |-> "out_grey", prefix |-> "out", currency |-> "grey", value |-> 1,
                conns |-> <<"water_storage">>, is_required |-> "",
                deprive_value |-> 0, requires |-> {"potable"}, criteria |-> NoCriteria] >>
      [] a = "plant" ->
            << [attr |-> "in_potable", prefix |-> "in", currency |-> "potable", value |-> 1,
                conns |-> <<"water_storage">>, is_required |-> "desired",
                deprive_value |-> 2, requires |-> {},
                criteria |-> [cr_name |-> "potable_ratio_in", cr_limit |-> ">",
                              cr_value |-> R(1, 4), cr_buffer |-> 1]],
               [attr |-> "out_biomass", prefix |-> "out", currency |-> "biomass", value |-> 3,
                conns |-> <<"plant", "food_storage">>, is_required |-> "",
                deprive_value |-> 0, requires |-> cfg.biomass_requires,
                criteria |-> IF cfg.harvest THEN GrownCriteria ELSE NoCriteria] >>
      [] OTHER -> <<>>

\* the char_threshold_<upper|lower>_<currency> attributes of an agent type
thresholds(a) ==
    IF a = "human" /\ cfg.threshold_type = "upper"
    THEN << [type |-> "upper", currency |-> "grey", value |-> R(3, 4)] >>
    ELSE IF a = "human"
    THEN << [type |-> "lower", currency |-> "potable", value |-> R(1, 4)] >>
    ELSE <<>>

\* model.global_entropy: the configurations that give the plant's event a
\* scope run with entropy, the others without
global_entropy == IF cfg.event_scope = "" THEN 0 ELSE 1

\* GeneralAgent.__init__: process_events, every agent being built 'from_new'
process_events == global_entropy # 0

\* the event_* attributes of an agent type with their attr_details (unit
\* 'hour', no variation distribution): one multiplier event of the plant
event_attrs(a) ==
    IF a = cfg.event_agent /\ cfg.event_scope # ""
    THEN << [attr |-> "event_blight", event_type |-> "blight",
             attr_value |-> "multiplier", scope |-> cfg.event_scope,
             probability_value |-> R(1, 2), magnitude_value |-> R(1, 2),
             duration_value |-> 2] >>
    ELSE <<>>

\* PlantAgent.__init__: lifetime, reproduce, growth_criteria
lifetime(a) == IF is_plant(a) THEN cfg.lifetime ELSE 0
reproduce(a) == is_plant(a) /\ cfg.reproduce
growth_criteria(a) == [prefix |-> "out", currency |-> "biomass"]

\* the flow attribute <prefix>_<currency> of agent a
flow_of(a, prefix, currency) ==
    LET i == CHOOSE i \in 1..Len(flows(a)) :
                flows(a)[i].prefix = prefix /\ flows(a)[i].currency = currency
    IN  flows(a)[i]

\* GeneralAgent._init_currency_exchange: selected_storage[prefix][currency]
selected_storage(a, prefix, currency) == flow_of(a, prefix, currency).conns

has_flow(a, prefix, currency) ==
    \E i \in 1..Len(flows(a)) : flows(a)[i].prefix = prefix /\ flows(a)[i].currency = currency

\* _init_currency_exchange: delta_per_step = hours_per_step * multiplier, the
\* deprive_unit being 'hour' throughout the catalog
delta_per_step == hours_per_step

\* _init_currency_exchange: n_steps (the lifetime for plants, one day otherwise)
n_steps(a) == IF is_plant(a) THEN lifetime(a) ELSE DayLengthHours

\* _calculate_step_values without growth functions: np.ones(n_steps) *
\* agent_value, agent_value being the hourly rate times hours_per_step
step_values(a, f) == [i \in 1..n_steps(a) |-> RInt(f.value * hours_per_step)]

\* the in_* flows, then the out_* flows: the order of the exchange loop
flow_order(a) ==
    SelectSeq(flows(a), LAMBDA f : f.prefix = "in") \o
    SelectSeq(flows(a), LAMBDA f : f.prefix = "out")

---------------------------------------------------------------------------
(* The state an agent step works on, as one record.                        *)

World ==
    [balance |-> balance, amount |-> amount, storage_ratios |-> storage_ratios,
     agents |-> agents, active |-> active, cause_of_death |-> cause_of_death,
     age |-> age, deprive |-> deprive, buffer |-> buffer,
     step_exchange_buffer |-> step_exchange_buffer, missing_desired |-> missing_desired,
     growth |-> growth, reads |-> reads, deficits |-> deficits,
     events |-> events, event_multipliers |-> event_multipliers,
     \* the values random_state returns to the running step, and how many
     \* of them the step has drawn
     tape |-> <<>>, drawn |-> 0]

\* BaseAgent.destroy and AgentModel.remove: the agent leaves scheduler.agents
destroy(w, a, reason) ==
    [w EXCEPT !.cause_of_death[a] = reason,
              !.active[a] = FALSE,
              !.agents = SelectSeq(w.agents, LAMBDA x : x # a)]

\* GeneralAgent.kill
kill(w, a, reason) == destroy(w, a, reason)

\* a read of model.storage_ratios[key][currency + '_ratio'] by agent a
read_ratio(w, a, key, currency) ==
    [w EXCEPT !.reads = @ \cup {[reader |-> a, key |-> key, currency |-> currency,
                                 value |-> w.storage_ratios[key][currency]]}]

\* mutant of opp: the comparisons also hold at equality
opp_inclusive(limit, x, y) ==
    CASE limit \in {">", "upper"} -> RLe(y, x)
      [] limit \in {"<", "lower"} -> RLe(x, y)
      [] OTHER -> x = y

\* the comparison operators of thresholds and criteria
opp(limit, x, y) ==
    CASE limit \in {">", "upper"} -> RLt(y, x)
      [] limit \in {"<", "lower"} -> RLt(x, y)
      [] OTHER -> x = y

---------------------------------------------------------------------------
(* GeneralAgent.step, part 1: the threshold check                          *)

\* the storages whose ratio a threshold on `currency` reads: for prefix in
\* ['in', 'out'], the storages of selected_storage[prefix][currency]
threshold_storages(a, currency) ==
    (IF has_flow(a, "in", currency) THEN selected_storage(a, "in", currency) ELSE <<>>) \o
    (IF has_flow(a, "out", currency) THEN selected_storage(a, "out", currency) ELSE <<>>)

\* one threshold against the storages in order: the first violation kills.
\* Returns [w, killed].
RECURSIVE check_threshold(_, _, _, _)
check_threshold(w, a, th, storages) ==
    IF storages = <<>> THEN [w |-> w, killed |-> FALSE]
    ELSE LET agent_id == storage_id(Head(storages))
             w1 == read_ratio(w, a, agent_id, th.currency)
             storage_ratio == w.storage_ratios[agent_id][th.currency]
         IN  IF opp(th.type, storage_ratio, th.value)
             THEN [w |-> kill(w1, a, "threshold"), killed |-> TRUE]
             ELSE check_threshold(w1, a, th, Tail(storages))

RECURSIVE check_thresholds(_, _, _)
check_thresholds(w, a, ths) ==
    IF ths = <<>> THEN [w |-> w, killed |-> FALSE]
    ELSE LET r == check_threshold(w, a, Head(ths), threshold_storages(a, Head(ths).currency))
         IN  IF r.killed THEN r ELSE check_thresholds(r.w, a, Tail(ths))

---------------------------------------------------------------------------
(* GeneralAgent._get_step_value and PlantAgent._get_step_value             *)

\* GeneralAgent._get_storage_ratio for a criteria name <currency>_ratio_<direction>:
\* the entry of the first storage connected for that currency and direction
criteria_storage(a, f) == storage_id(selected_storage(a, f.prefix, f.currency)[1])

\* self.buffer.get(attr, 0)
buffer_get(w, a, attr) == IF attr \in DOMAIN w.buffer[a] THEN w.buffer[a][attr] ELSE 0

\* `if cr_name in self`: the criteria names that are attributes of the agent
own_attribute(cr_name) == cr_name = "grown"

\* `source = self[cr_name]` (the flag grown compares as 0 or 1), else
\* `source = self._get_storage_ratio(cr_name)`
criteria_source(w, a, f) ==
    IF own_attribute(f.criteria.cr_name)
    THEN IF w.growth[a].grown THEN RInt(1) ELSE Zero
    ELSE w.storage_ratios[criteria_storage(a, f)][f.currency]

\* the world after the lookup of the source
criteria_read(w, a, f) ==
    IF own_attribute(f.criteria.cr_name) THEN w
    ELSE read_ratio(w, a, criteria_storage(a, f), f.currency)

\* the criteria gate of _get_step_value. Returns [w, open]: open is FALSE
\* when the method returns 0 before the step value is looked up.
criteria_gate(w, a, f) ==
    IF f.criteria.cr_name = "" THEN [w |-> w, open |-> TRUE]
    ELSE LET source == criteria_source(w, a, f)
             w1 == criteria_read(w, a, f)
             cr_buffer == f.criteria.cr_buffer
         IN  IF opp(f.criteria.cr_limit, source, f.criteria.cr_value)
             THEN IF cr_buffer > 0 /\ buffer_get(w1, a, f.attr) > 0
                  THEN [w |-> [w1 EXCEPT !.buffer[a][f.attr] = @ - 1], open |-> FALSE]
                  ELSE [w |-> w1, open |-> TRUE]
             ELSE [w |-> IF cr_buffer > 0
                         THEN [w1 EXCEPT !.buffer[a][f.attr] = cr_buffer]
                         ELSE w1,
                   open |-> FALSE]

\* `if step_num >= self.step_values[attr].shape[0]: step_num = step_num % day_length`
step_index(a, step_num) ==
    IF step_num >= n_steps(a) THEN step_num % DayLengthHours ELSE step_num

\* the lookup of _get_step_value behind the gate g: step_values[attr][i]
gated_step_value(g, a, f, i) ==
    IF ~g.open THEN [w |-> g.w, value |-> Zero, err |-> "none"]
    ELSE IF i >= n_steps(a) THEN [w |-> g.w, value |-> Zero, err |-> "IndexError"]
    ELSE [w |-> g.w, value |-> step_values(a, f)[i + 1], err |-> "none"]

\* GeneralAgent._get_step_value. Returns [w, value, err]; err is "IndexError"
\* when the index is past the end of step_values[attr].
general_step_value(w, a, f, step_num) ==
    gated_step_value(criteria_gate(w, a, f), a, f, step_index(a, step_num))

\* PlantAgent._get_step_value: in the grown state only the attribute whose
\* criteria is 'grown' has a value; the index is agent_step_num. No attribute
\* of the catalog is weighted and co2_scale is 1 without carbon fixation.
plant_step_value(w, a, f) ==
    IF w.growth[a].grown /\ f.criteria.cr_name # "grown"
    THEN [w |-> w, value |-> Zero, err |-> "none"]
    ELSE general_step_value(w, a, f, w.growth[a].agent_step_num)

get_step_value(w, a, f) ==
    IF is_plant(a) THEN plant_step_value(w, a, f)
    ELSE general_step_value(w, a, f, w.age[a])

---------------------------------------------------------------------------
(* GeneralAgent.step, part 2: one currency exchange                        *)

\* value_eps = 1e-12: the model's quantities are multiples of far larger
\* fractions, so nothing lies between 0 and value_eps
below_value_eps(x) == RLe(x, Zero)

\* sum(storage.view(currency).values())
storage_value(w, storage, currency) ==
    RSum([c \in view_currencies(w.balance[storage], currency) |-> w.balance[storage][c]])

\* available_conns: the value of each connected storage, read before the exchange
RECURSIVE available_conns(_, _, _)
available_conns(w, storages, currency) ==
    IF storages = <<>> THEN <<>>
    ELSE <<[agent |-> Head(storages), value |-> storage_value(w, Head(storages), currency)]>>
         \o available_conns(w, Tail(storages), currency)

RECURSIVE conns_total(_)
conns_total(conns) ==
    IF conns = <<>> THEN Zero ELSE RAdd(Head(conns).value, conns_total(Tail(conns)))

\* mutant of conn_delta: an input is shared evenly like an output
conn_delta_even(prefix, remaining_value, conn, n_conns) ==
    RDiv(remaining_value, RInt(n_conns))

\* the share of one connection: conn_delta
conn_delta(prefix, remaining_value, conn, n_conns) ==
    IF prefix = "in" THEN RMin(remaining_value, conn.value)
    ELSE RDiv(remaining_value, RInt(n_conns))

\* buf[_currency][storage.agent_type] = abs(_amount) for every item of flow
log_exchange(seb, prefix, storage, flow) ==
    {e \in seb : ~(e.prefix = prefix /\ e.storage = storage /\ e.currency \in DOMAIN flow)}
    \cup {[prefix |-> prefix, currency |-> c, storage |-> storage, amount |-> RAbs(flow[c])] :
            c \in DOMAIN flow}

\* one turn of the exchange loop after storage.increment returned r: the
\* ledger and the influx set. s is [w, influx, err].
exchange_logged(s, a, f, storage, r, actual_value) ==
    IF r.err # "none" THEN [s EXCEPT !.err = r.err]
    ELSE IF below_value_eps(actual_value)
    THEN [s EXCEPT !.w.balance[storage] = r.bal]
    ELSE [w |-> [s.w EXCEPT !.balance[storage] = r.bal,
                            !.step_exchange_buffer[a] =
                                log_exchange(@, f.prefix, storage, r.flow)],
          influx |-> IF f.prefix = "in" THEN s.influx \cup {f.currency} ELSE s.influx,
          err |-> "none"]

\* one turn of the exchange loop for the share delta of storage
exchange_with(s, a, f, storage, delta, actual_value) ==
    exchange_logged(s, a, f, storage,
                    increment(s.w.balance[storage], char_capacity[storage],
                              s.w.amount[storage], f.currency,
                              IF f.prefix = "in" THEN RNeg(delta) ELSE delta),
                    actual_value)

\* 9. PROCESS EXCHANGE: the loop over available_conns. s is [w, influx, err].
RECURSIVE process_exchange(_, _, _, _, _, _, _)
process_exchange(s, a, f, conns, n_conns, remaining_value, actual_value) ==
    IF conns = <<>> \/ s.err # "none" THEN s
    ELSE process_exchange(
            exchange_with(s, a, f, Head(conns).agent,
                          conn_delta(f.prefix, remaining_value, Head(conns), n_conns),
                          actual_value),
            a, f, Tail(conns), n_conns,
            RSub(remaining_value,
                 conn_delta(f.prefix, remaining_value, Head(conns), n_conns)),
            actual_value)

\* 8.2 DEPRIVE with a deficit: the instances the supply satisfies, those the
\* budget carries, those that die. Returns [actual_value, deprive, amount].
n_satisfied(available_value, step_mag) == RFloor(RDiv(available_value, step_mag))

\* mutant of max_survive: the budget carries one instance more
max_survive_generous(deprive_left) ==
    RFloor(RDiv(RMax(deprive_left, Zero), RInt(delta_per_step))) + 1

\* max_survive = math.floor(max(self.deprive[attr], 0) / delta_per_step)
max_survive(deprive_left) == RFloor(RDiv(RMax(deprive_left, Zero), RInt(delta_per_step)))

deprive_deficit(deprive_left, n, available_value, step_mag) ==
    LET n_sat == n_satisfied(available_value, step_mag)
        n_deprived == n - n_sat
        n_survive == IF n_deprived < max_survive(deprive_left)
                     THEN n_deprived ELSE max_survive(deprive_left)
        n_die == n_deprived - n_survive
    IN  [actual_value |-> RMul(RInt(n_sat), step_mag),
         deprive |-> RSub(deprive_left, RInt(delta_per_step * n_survive)),
         amount |-> n - n_die]

\* mutant of deprive_refill: the refill has no ceiling
deprive_refill_uncapped(deprive_left, n, deprive_value) ==
    RAdd(deprive_left, RInt(deprive_value))

\* 8.2 DEPRIVE without a deficit: the budget is refilled up to its ceiling
deprive_refill(deprive_left, n, deprive_value) ==
    RMin(RInt(deprive_value * n), RAdd(deprive_left, RInt(deprive_value)))

\* an exception of storage.increment leaves the step
exchange_status(x) ==
    [w |-> x.w, influx |-> x.influx,
     status |-> IF x.err # "none" THEN "raise" ELSE "run", err |-> x.err]

\* 9. for one attribute: the exchange of actual_value with the connections
flow_exchange(s, a, f, w, conns, actual_value) ==
    exchange_status(process_exchange([w |-> w, influx |-> s.influx, err |-> "none"],
                                     a, f, conns, Len(conns), actual_value, actual_value))

\* 8.2 DEPRIVE with a deficit, d being the outcome of deprive_deficit: the
\* budget and the amount are written, an agent left without instances is killed
flow_deprived(s, a, f, w, conns, d) ==
    IF d.amount <= 0
    THEN [s EXCEPT !.w = kill([w EXCEPT !.deprive[a][f.attr] = d.deprive,
                                        !.amount[a] = d.amount,
                                        !.deficits[a][f.attr] = @ + 1],
                              a, "deprive"),
                   !.status = "return"]
    ELSE flow_exchange(s, a, f,
                       [w EXCEPT !.deprive[a][f.attr] = d.deprive,
                                 !.amount[a] = d.amount,
                                 \* observation only: one more consecutive deficit step
                                 !.deficits[a][f.attr] = @ + 1],
                       conns, d.actual_value)

\* 8.2 DEPRIVE for one attribute, on the world w left by 8.1
flow_deprive(s, a, f, w, has_deficit, step_mag, conns, available_value, target_value) ==
    IF f.deprive_value > 0 /\ has_deficit
    THEN flow_deprived(s, a, f, w, conns,
                       deprive_deficit(w.deprive[a][f.attr], w.amount[a],
                                       available_value, step_mag))
    ELSE IF f.deprive_value > 0
    THEN flow_exchange(s, a, f,
                       [w EXCEPT !.deprive[a][f.attr] =
                                    deprive_refill(@, w.amount[a], f.deprive_value),
                                 \* observation only: the deficit streak ends
                                 !.deficits[a][f.attr] = 0],
                       conns, target_value)
    ELSE flow_exchange(s, a, f, w, conns, target_value)

\* mutant of desired_stalls: a desired deficit is not recorded
desired_stalls_never(is_required) == FALSE

\* `elif is_required == 'desired': self.missing_desired = True`
desired_stalls(is_required) == is_required = "desired"

\* mutant of mandatory_stops: a mandatory deficit does not end the step
mandatory_stops_never(is_required) == FALSE

\* `if is_required == 'mandatory': return`
mandatory_stops(is_required) == is_required = "mandatory"

\* 8. for one attribute: has_deficit, then 8.1 REQUIRES
flow_deficit(s, a, f, w, step_mag, conns, available_value, target_value) ==
    IF f.prefix = "in" /\ RLt(available_value, target_value)
    THEN IF mandatory_stops(f.is_required)
         THEN [s EXCEPT !.w = w, !.status = "return"]
         ELSE flow_deprive(s, a, f,
                           IF desired_stalls(f.is_required)
                           THEN [w EXCEPT !.missing_desired[a] = "yes"] ELSE w,
                           TRUE, step_mag, conns, available_value, target_value)
    ELSE flow_deprive(s, a, f, w, FALSE, step_mag, conns, available_value, target_value)

\* 7. CALCULATE AVAILABLE VALUE, with target_value = step_mag * amount
flow_supply(s, a, f, w, step_mag, conns) ==
    flow_deficit(s, a, f, w, step_mag, conns, conns_total(conns),
                 RMul(step_mag, RInt(w.amount[a])))

\* np.prod(list(self.event_multipliers.values()))
event_factor(w, a) == RProd(w.event_multipliers[a])

\* 6. CALCULATE TARGET VALUE from the step value sv: step_mag is the step
\* value times the event multipliers; step_variable is 1
flow_target(s, a, f, sv) ==
    IF sv.err # "none" THEN [s EXCEPT !.w = sv.w, !.status = "raise", !.err = sv.err]
    ELSE flow_supply(s, a, f, sv.w, RMul(sv.value, event_factor(sv.w, a)),
                     available_conns(sv.w, f.conns, f.currency))

\* steps 5 to 9 for one attribute. s is [w, influx, status, err] with status
\* "run" (go on), "return" (the step returned early) or "raise".
process_flow(s, a, f) ==
    IF f.value = 0 THEN s
    ELSE IF f.requires \ s.influx # {} THEN s
    ELSE flow_target(s, a, f, get_step_value(s.w, a, f))

RECURSIVE process_flows(_, _, _)
process_flows(s, a, fs) ==
    IF fs = <<>> \/ s.status # "run" THEN s
    ELSE process_flows(process_flow(s, a, Head(fs)), a, Tail(fs))

---------------------------------------------------------------------------
(* GeneralAgent.step and PlantAgent.step                                   *)

\* the head of GeneralAgent.step: super().step(), the ledger reset, the age
begin_step(w, a) ==
    [w EXCEPT !.storage_ratios = storage_step(a, @, w.balance[a]),
              !.step_exchange_buffer[a] = {},
              !.age[a] = @ + hours_per_step]

\* the names the module custom_funcs defines
custom_funcs == {"atmosphere_equalizer"}

\* attrs['char_custom_function'] of an agent type ("" when not declared)
char_custom_function(a) == IF a = "human" THEN cfg.custom_function ELSE ""

\* `custom_function = getattr(custom_funcs, attr_value)`: a name the module
\* does not define raises AttributeError. No agent of the catalog declares a
\* name that the module defines.
custom_function_raises(a) ==
    char_custom_function(a) # "" /\ char_custom_function(a) \notin custom_funcs

\* _init_events: probability_per_step and duration_delta_per_step, the units
\* being 'hour'
probability_per_step(ev) == RMul(ev.probability_value, RInt(hours_per_step))
duration_delta_per_step == hours_per_step

\* _process_event, UPDATE INSTANCES FOR DURATION & AMOUNT: the durations are
\* decremented, the expired instances dropped, the list cut to self.amount
aged_instances(instances) ==
    [i \in 1..Len(instances) |->
        [instances[i] EXCEPT !.duration = @ - duration_delta_per_step]]

live_instances(instances) == SelectSeq(instances, LAMBDA e : e.duration > 0)

cut_instances(instances, n) ==
    IF Len(instances) > n THEN SubSeq(instances, 1, n) ELSE instances

\* max_instances = 1 if scope == 'group' else self.amount
max_instances(scope, n) == IF scope = "group" THEN 1 ELSE n

\* the values of random_state.rand(): multiples of 1 / RandModulus in [0, 1)
RandModulus == 4
rand_value(x) == R(x, RandModulus)

\* the instance a successful roll adds
new_instance(ev) == [magnitude |-> ev.magnitude_value, duration |-> ev.duration_value]

\* RANDOMLY GENERATE NEW INSTANCES: one roll of random_state.rand() per free
\* slot. s is [instances, drawn], tape the values rand() returns.
RECURSIVE roll_instances(_, _, _, _)
roll_instances(s, ev, tape, n_left) ==
    IF n_left <= 0 THEN s
    ELSE roll_instances(
            IF RLt(probability_per_step(ev), rand_value(tape[s.drawn + 1]))
            THEN [s EXCEPT !.drawn = @ + 1]
            ELSE [s EXCEPT !.drawn = @ + 1, !.instances = Append(@, new_instance(ev))],
            ev, tape, n_left - 1)

RECURSIVE sum_magnitudes(_)
sum_magnitudes(instances) ==
    IF instances = <<>> THEN Zero
    ELSE RAdd(Head(instances).magnitude, sum_magnitudes(Tail(instances)))

\* mutant of event_multiplier: the empty slots count for nothing
event_multiplier_filled(instances, max_inst) ==
    RDiv(sum_magnitudes(instances), RInt(max_inst))

\* event_multiplier = (modified + unmodified) / max_instances
event_multiplier(instances, max_inst) ==
    RDiv(RAdd(sum_magnitudes(instances), RInt(max_inst - Len(instances))), RInt(max_inst))

without_key(f, k) == [t \in DOMAIN f \ {k} |-> f[t]]
with_key(f, k, v) == [t \in DOMAIN f \cup {k} |-> IF t = k THEN v ELSE f[t]]

\* UPDATE EVENT RECORDS, r being the outcome of the rolls
update_event_records(w, a, ev, r, max_inst) ==
    IF Len(r.instances) = 0
    THEN [w EXCEPT !.events[a] = without_key(@, ev.event_type),
                   !.event_multipliers[a] = without_key(@, ev.event_type),
                   !.drawn = r.drawn]
    ELSE [w EXCEPT !.events[a] = with_key(@, ev.event_type, r.instances),
                   !.event_multipliers[a] =
                        with_key(@, ev.event_type, event_multiplier(r.instances, max_inst)),
                   !.drawn = r.drawn]

\* the rolls of _process_event on the instances left after the update
roll_event(w, a, ev, instances, max_inst) ==
    update_event_records(w, a, ev,
                         roll_instances([instances |-> instances, drawn |-> w.drawn],
                                        ev, w.tape, max_inst - Len(instances)),
                         max_inst)

\* self.events.get(event_type, [])
events_get(w, a, event_type) ==
    IF event_type \in DOMAIN w.events[a] THEN w.events[a][event_type] ELSE <<>>

\* GeneralAgent._process_event for a multiplier event
process_event(w, a, ev) ==
    roll_event(w, a, ev,
               cut_instances(live_instances(aged_instances(events_get(w, a, ev.event_type))),
                             w.amount[a]),
               max_instances(ev.scope, w.amount[a]))

\* 3. PROCESS EVENTS: `if attr.startswith('event') and self.process_events`
RECURSIVE process_event_attrs(_, _, _)
process_event_attrs(w, a, evs) ==
    IF evs = <<>> \/ ~process_events THEN w
    ELSE process_event_attrs(process_event(w, a, Head(evs)), a, Tail(evs))

\* the exchange loop of GeneralAgent.step on the world the events left
exchange_loop(w, a) ==
    process_flows([w |-> [w EXCEPT !.missing_desired[a] = "no"],
                   influx |-> {}, status |-> "run", err |-> "none"],
                  a, flow_order(a))

\* the rest of GeneralAgent.step after the threshold check t: the custom
\* function (declared after the thresholds in attrs), the events evs that
\* attrs declares after it, then the exchange loop
exchange_step(t, a, evs) ==
    IF t.killed
    THEN [w |-> t.w, influx |-> {}, status |-> "return", err |-> "none"]
    ELSE IF custom_function_raises(a)
    THEN [w |-> t.w, influx |-> {}, status |-> "raise", err |-> "AttributeError"]
    ELSE exchange_loop(process_event_attrs(t.w, a, evs), a)

\* the loop over attrs of GeneralAgent.step: each attribute is handled when
\* the loop reaches it, so event attributes declared before the thresholds
\* (cfg.events_first) are processed before the threshold check
attrs_loop(w, a) ==
    IF cfg.events_first
    THEN exchange_step(check_thresholds(process_event_attrs(w, a, event_attrs(a)),
                                        a, thresholds(a)),
                       a, <<>>)
    ELSE exchange_step(check_thresholds(w, a, thresholds(a)), a, event_attrs(a))

\* GeneralAgent.step. Returns [w, influx, status, err]. No agent of the
\* catalog declares a step variation (step_variable stays 1).
general_step(w, a) == attrs_loop(begin_step(w, a), a)

\* PlantAgent._init_currency_exchange: total_growth = sum(step_values[growth_criteria])
total_growth(a) ==
    LET gc == growth_criteria(a)
    IN  RMul(RInt(n_steps(a)), RInt(flow_of(a, gc.prefix, gc.currency).value * hours_per_step))

\* mutant of reproduce_amount: the amount is left as deprivation made it
reproduce_amount_kept(w, a) == w.amount[a]

\* `self.amount = self.full_amount`
reproduce_amount(w, a) == w.growth[a].full_amount

\* mutant of reproduce_delay: a whole day minus one, whatever the age
reproduce_delay_unaligned(plant_age) == DayLengthHours - 1

\* delay = day_length - current_hour - 1, current_hour = int(self.age) % day_length
reproduce_delay(plant_age) == DayLengthHours - (plant_age % DayLengthHours) - 1

\* the reset of a reproducing plant after its grown step
plant_reproduce(w, a) ==
    [w EXCEPT !.age[a] = 0,
              !.growth[a].current_growth = Zero,
              !.growth[a].growth_rate = Zero,
              !.growth[a].agent_step_num = 0,
              !.growth[a].grown = FALSE,
              !.amount[a] = reproduce_amount(w, a),
              !.growth[a].delay_start = reproduce_delay(w.age[a])]

\* mutant of reaches_grown: `>= lifetime` for `>= lifetime - 1`
reaches_grown_late(agent_step_num, life) == agent_step_num >= life /\ life - 1 > 0

\* `if self.agent_step_num >= self.lifetime - 1 > 0: self.grown = True`
reaches_grown(agent_step_num, life) == agent_step_num >= life - 1 /\ life - 1 > 0

\* the end of PlantAgent.step, after super().step(): advance the life cycle
\* and accumulate growth unless a desired input was missing
plant_advance(w, a) ==
    LET gc == growth_criteria(a)
        step_data == {e \in w.step_exchange_buffer[a] :
                         e.prefix = gc.prefix /\ e.currency = gc.currency}
        growth_value == RSum([e \in step_data |-> e.amount])
        w1 == [w EXCEPT !.growth[a].agent_step_num = @ + hours_per_step]
        grown_by == RDiv(growth_value, RInt(w.amount[a]))
        current == RAdd(w.growth[a].current_growth, grown_by)
        rate == RDiv(current, total_growth(a))
    IN  IF w.missing_desired[a] = "unset" THEN [w |-> w, err |-> "AttributeError"]
        ELSE IF w.missing_desired[a] = "yes" THEN [w |-> w, err |-> "none"]
        ELSE IF step_data = {} THEN [w |-> w1, err |-> "none"]
        ELSE IF grown_by = DivError \/ rate = DivError
        THEN [w |-> w1, err |-> "ZeroDivisionError"]
        ELSE [w |-> [w1 EXCEPT !.growth[a].current_growth = current,
                               !.growth[a].growth_rate = rate],
              err |-> "none"]

\* PlantAgent.step after super().step() returned s
plant_after_step(s, a) ==
    IF s.status = "raise" THEN [w |-> s.w, err |-> s.err]
    ELSE plant_advance(s.w, a)

\* PlantAgent.step from the destroy of a grown plant on: destroy does not
\* return, the step goes on
plant_grow(w, a) ==
    plant_after_step(
        general_step(IF reaches_grown(w.growth[a].agent_step_num, lifetime(a))
                     THEN [w EXCEPT !.growth[a].grown = TRUE] ELSE w, a), a)

\* PlantAgent.step. Returns [w, err].
plant_step(w, a) ==
    IF w.growth[a].delay_start > 0
    THEN [w |-> [w EXCEPT !.growth[a].delay_start = @ - hours_per_step], err |-> "none"]
    ELSE IF w.growth[a].grown /\ reproduce(a)
    THEN [w |-> plant_reproduce(w, a), err |-> "none"]
    ELSE IF w.growth[a].grown
    THEN plant_grow(destroy(w, a, "lifetime"), a)
    ELSE plant_grow(w, a)

\* agent.step() as the scheduler calls it. Returns [w, err].
agent_step(w, a) ==
    IF is_plant(a) THEN plant_step(w, a)
    ELSE IF flows(a) = <<>>
    THEN [w |-> [w EXCEPT !.storage_ratios = storage_step(a, @, w.balance[a])],
          err |-> "none"]
    ELSE LET s == general_step(w, a) IN [w |-> s.w, err |-> s.err]

---------------------------------------------------------------------------
(* PrioritizedRandomActivation.step and AgentModel.step                    *)

\* the permutations of a finite set, as sequences (random_state.shuffle)
RECURSIVE shuffles(_)
shuffles(S) ==
    IF S = {} THEN {<<>>}
    ELSE UNION {{<<x>> \o p : p \in shuffles(S \ {x})} : x \in S}

\* agent_by_class[agent_class]: the agents of scheduler.agents of that class
agents_of_class(agent_list, class) ==
    {agent_list[i] : i \in {j \in 1..Len(agent_list) : agent_class[agent_list[j]] = class}}

\* mutant of activation_orders: one shuffle of all agents, priorities ignored
activation_orders_unprioritized(agent_list, priorities) ==
    shuffles({agent_list[i] : i \in 1..Len(agent_list)})

\* the activation orders of one tick: for agent_class in model.priorities, a
\* shuffle of agent_by_class[agent_class]
RECURSIVE activation_orders(_, _)
activation_orders(agent_list, priorities) ==
    IF priorities = <<>> THEN {<<>>}
    ELSE {p \o rest : p \in shuffles(agents_of_class(agent_list, Head(priorities))),
                      rest \in activation_orders(agent_list, Tail(priorities))}

\* AgentModelInitializationParams.seed = None
NoSeed == -1

\* AgentModel.__init__: `self.random_state = np.random.RandomState(self.seed)`.
\* Without a seed the generator starts anywhere: Unseeded stands for a
\* generator whose every draw can be any value.
Unseeded == NoSeed
RandomState(seed) == IF seed = NoSeed THEN Unseeded ELSE seed % RandModulus

\* one step of the generator: the new state is the value drawn
next_random(x) == (5 * x + 3) % RandModulus

\* the next k values of the generator
RECURSIVE stream(_, _)
stream(rs, k) == IF k <= 0 THEN <<>> ELSE <<next_random(rs)>> \o stream(next_random(rs), k - 1)

\* the generator after k draws
RECURSIVE advance(_, _)
advance(rs, k) == IF rs = Unseeded \/ k <= 0 THEN rs ELSE advance(next_random(rs), k - 1)

\* the values k draws can return
tapes(rs, k) == IF rs = Unseeded THEN [1..k -> 0..(RandModulus - 1)] ELSE {stream(rs, k)}

\* the draws one agent step can make: one roll per free slot of each event
max_draws(a) == IF process_events THEN Len(event_attrs(a)) * amount[a] ELSE 0

\* a draw of the generator in 0..i
random_interval(x, i) == x % (i + 1)

swap(list, i, j) == [list EXCEPT ![i] = list[j], ![j] = list[i]]

\* random_state.shuffle(list): for i from len - 1 down to 1, swap the items
\* at i and at a drawn j in 0..i (positions counted from 0)
RECURSIVE shuffle(_, _, _)
shuffle(list, rs, i) ==
    IF i < 1 THEN [list |-> list, random_state |-> rs]
    ELSE shuffle(swap(list, i + 1, random_interval(next_random(rs), i) + 1),
                 next_random(rs), i - 1)

\* agent_by_class[agent_class] as the list the scheduler builds
class_list(agent_list, class) == SelectSeq(agent_list, LAMBDA x : agent_class[x] = class)

shuffled_class(agent_list, class, rs) ==
    shuffle(class_list(agent_list, class), rs, Len(class_list(agent_list, class)) - 1)

\* the activation order of one tick under a seeded generator. The shuffles
\* of a tick are drawn together: in the catalog only the plant draws inside
\* its step, and its class is the last of every priority list.
RECURSIVE seeded_activation(_, _, _)
seeded_activation(agent_list, priorities, rs) ==
    IF priorities = <<>> THEN [order |-> <<>>, random_state |-> rs]
    ELSE LET p == shuffled_class(agent_list, Head(priorities), rs)
             rest == seeded_activation(agent_list, Tail(priorities), p.random_state)
         IN  [order |-> p.list \o rest.order, random_state |-> rest.random_state]

\* the activation orders of one tick with the generator they leave
activations(rs, agent_list, priorities) ==
    IF rs = Unseeded
    THEN {[order |-> o, random_state |-> rs] : o \in activation_orders(agent_list, priorities)}
    ELSE {seeded_activation(agent_list, priorities, rs)}

\* the key of the cache entry written by AgentModel.step:
\* '{}_{}'.format(storage.agent_type, storage.id)
model_storage_id(a) == a \o "_1"

\* AgentModel.step: the cache entries rebuilt for every StorageAgent of the scheduler
model_ratios(ratios, agent_list, bal) ==
    LET new_keys == {model_storage_id(agent_list[i]) : i \in 1..Len(agent_list)}
    IN  [k \in DOMAIN ratios \cup new_keys |->
            IF k \in new_keys
            THEN LET a == CHOOSE a \in AgentTypes : model_storage_id(a) = k
                 IN  calculate_storage_ratios(capacity_order(a), bal[a])
            ELSE ratios[k]]

\* mutant of time_is_up: the condition is met by the first step past the
\* limit only
time_is_up_once(model_minutes) ==
    /\ model_minutes > cfg.termination * 60
    /\ model_minutes <= cfg.termination * 60 + cfg.minutes_per_step

\* the termination test of AgentModel.step: a 'time' condition in hours
time_is_up(model_minutes) == model_minutes > cfg.termination * 60

---------------------------------------------------------------------------
(* The state after construction, shared by both specifications.            *)

\* the threads that load the same saved model state (10 in the test)
NumThreads == 3
Threads == 1..NumThreads

\* the database after create_new, snapshot(), step(), snapshot() of the
\* original model: one branch, saved at step 0 and again at step 1 (the
\* branch row was inserted with version 1 and updated once)
InitialDb ==
    [version |-> <<2>>,
     states |-> {[branch |-> 1, step_num |-> 0], [branch |-> 1, step_num |-> 1]},
     lock |-> <<0>>]

\* the saved state all threads load: the one of the second snapshot
SavedState == [branch |-> 1, step_num |-> 1]

\* a thread before it loads the model. branch 0 is a SnapshotBranch object
\* that was never flushed (id and version_id None); pending is the branch row
\* whose incremented version_id the session has still to write; retries
\* counts the StaleDataErrors handled (observation only).
NewThread ==
    [pc |-> "start", branch |-> 0, parent |-> 0, version |-> 0, pending |-> 0,
     flushed |-> FALSE, step_num |-> 0, seen |-> {}, result |-> 0, retries |-> 0]

\* the record of `call` before any direct call
NoCall ==
    [op |-> "none", agent |-> "none", view |-> "none", inc |-> Zero, flow |-> <<>>,
     err |-> "none"]

\* the hours of the 'time' termination condition
TerminationHours == 8

\* the configurations explored: class priorities, tick length, the human's
\* deprivation budget, the plant's lifetime and reproduction, the 'requires'
\* field of the plant's biomass output
Configs ==
    [priorities : {<<"storage", "inhabitants", "plants">>,
                   <<"inhabitants", "storage", "plants">>},
     minutes_per_step : {60, 120},
     deprive_value : {2, 5},
     lifetime : {3, 4},
     reproduce : BOOLEAN,
     biomass_requires : {{}, {"potable"}},
     custom_function : {""},
     event_scope : {""},
     event_agent : {"plant"},
     events_first : {FALSE},
     threshold_type : {"upper"},
     food_value : {0},
     food_required : {""},
     harvest : {FALSE},
     seed : {NoSeed},
     termination : {TerminationHours}]

\* the configuration of the specifications that call methods directly
DirectCallConfig ==
    [priorities |-> <<"storage", "inhabitants", "plants">>, minutes_per_step |-> 60,
     deprive_value |-> 5, lifetime |-> 4, reproduce |-> FALSE,
     biomass_requires |-> {}, custom_function |-> "", event_scope |-> "",
     event_agent |-> "plant", events_first |-> FALSE, threshold_type |-> "upper",
     food_value |-> 0, food_required |-> "", harvest |-> FALSE, seed |-> NoSeed,
     termination |-> TerminationHours]

\* the starting balances (the kwargs <currency>=... of each constructor)
InitialBalance(potable, grey, stored_biomass, plant_biomass) ==
    [a \in AgentTypes |->
        CASE a = "water_storage" -> [c \in {"potable", "grey"} |->
                                        IF c = "potable" THEN potable ELSE grey]
          [] a = "food_storage" -> [c \in {"biomass"} |-> stored_biomass]
          [] a = "plant" -> [c \in {"biomass"} |-> plant_biomass]
          [] OTHER -> <<>>]

\* the agents in the order they were added to the scheduler
InitialAgents == <<"water_storage", "food_storage", "human", "plant">>

\* the kwarg full_amount of PlantAgent.__init__: the plants are a field of two
\* instances, of which one may be missing at the start
initial_full_amount(a) == IF is_plant(a) THEN 2 ELSE 1

\* no event instance yet: `self.events = kwargs.get("events", {})`
NoEvents == [t \in {} |-> <<>>]

\* the fields set by AgentModel, BaseAgent, GeneralAgent and PlantAgent constructors
InitState ==
    /\ time = 0
    /\ steps = 0
    /\ is_terminated = FALSE
    /\ termination_reason = "none"
    /\ agents = InitialAgents
    /\ queue = <<>>
    /\ pc = "idle"
    /\ stepped = <<>>
    /\ active = [a \in AgentTypes |-> TRUE]
    /\ cause_of_death = [a \in AgentTypes |-> "none"]
    /\ age = [a \in AgentTypes |-> 0]
    /\ deprive = [a \in AgentTypes |->
                    [attr \in {flows(a)[i].attr : i \in {j \in 1..Len(flows(a)) :
                                                           flows(a)[j].deprive_value > 0}} |->
                        RInt(flow_of(a, "in", "potable").deprive_value * amount[a])]]
    /\ buffer = [a \in AgentTypes |->
                    [attr \in {flows(a)[i].attr : i \in {j \in 1..Len(flows(a)) :
                                                           flows(a)[j].criteria.cr_buffer > 0}} |->
                        flow_of(a, "in", "potable").criteria.cr_buffer]]
    /\ step_exchange_buffer = [a \in AgentTypes |-> {}]
    /\ missing_desired = [a \in AgentTypes |-> "unset"]
    /\ growth = [a \in AgentTypes |->
                    [delay_start |-> 0, agent_step_num |-> 0, grown |-> FALSE,
                     current_growth |-> Zero, growth_rate |-> Zero,
                     full_amount |-> initial_full_amount(a)]]
    /\ reads = {}
    /\ raised = "none"
    /\ deficits = [a \in AgentTypes |-> [attr \in DOMAIN deprive[a] |-> 0]]
    /\ call = NoCall
    /\ ncalls = 0
    /\ db = InitialDb
    /\ threads = [t \in Threads |-> NewThread]
    /\ events = [a \in AgentTypes |-> NoEvents]
    /\ event_multipliers = [a \in AgentTypes |-> NoEvents]
    /\ random_state = RandomState(cfg.seed)

\* a single run: nothing is recorded
SingleRun ==
    /\ run = 0
    /\ history = <<>>
    /\ initial = <<>>

InitFields == InitState /\ SingleRun

agent_vars ==
    <<cfg, time, steps, is_terminated, termination_reason, agents, queue, pc, stepped,
      active, cause_of_death, age, deprive, buffer, step_exchange_buffer,
      missing_desired, growth, reads, raised, deficits, db, threads, events,
      event_multipliers, random_state, run, history, initial>>

---------------------------------------------------------------------------
(* Specification SpecStorage: direct calls of StorageAgent.increment and   *)
(* StorageAgent.step on the storages of the catalog, from balances within  *)
(* capacity.                                                               *)

MaxCalls == 3

\* the amounts passed to increment
IncrementAmounts == {RInt(-20), RInt(-7), Zero, RInt(150)}

\* the storages that receive direct calls
DirectCallAgents == {"water_storage", "human", "plant"}

InitStorage ==
    /\ cfg = DirectCallConfig
    /\ amount \in {f \in [AgentTypes -> {1, 2}] :
                       f["human"] = 1 /\ f["plant"] = 2 /\ f["food_storage"] = 1}
    /\ \E potable \in {Zero, RInt(30)}, grey \in {Zero, RInt(10)} :
          balance = InitialBalance(potable, grey, RInt(10), RInt(10))
    /\ storage_ratios = InitRatios(balance)
    /\ InitFields

\* one call storage.increment(view, inc) from outside any agent step
IncrementCall(a, view, inc) ==
    /\ ncalls < MaxCalls
    /\ has_storage(a)
    /\ LET r == IF view \in agent_currency_dict(a)
                THEN increment(balance[a], char_capacity[a], amount[a], view, inc)
                ELSE [bal |-> balance[a], flow |-> <<>>,
                      err |-> IF inc = Zero THEN "none" ELSE "KeyError"]
       IN  /\ balance' = [balance EXCEPT ![a] = r.bal]
           /\ call' = [op |-> "increment", agent |-> a, view |-> view, inc |-> inc,
                       flow |-> r.flow, err |-> r.err]
    /\ ncalls' = ncalls + 1
    /\ UNCHANGED <<amount, storage_ratios>>
    /\ UNCHANGED agent_vars

\* one call storage.step() from outside the scheduler
StorageStepCall(a) ==
    /\ ncalls < MaxCalls
    /\ LET new == storage_step(a, storage_ratios, balance[a])
           failed == \E c \in DOMAIN new[storage_id(a)] : new[storage_id(a)][c] = DivError
       IN  /\ storage_ratios' = IF failed THEN storage_ratios ELSE new
           /\ call' = [NoCall EXCEPT !.op = "step", !.agent = a,
                                     !.err = IF failed THEN "ZeroDivisionError" ELSE "none"]
    /\ ncalls' = ncalls + 1
    /\ UNCHANGED <<balance, amount>>
    /\ UNCHANGED agent_vars

NextStorage ==
    \/ \E a \in DirectCallAgents, view \in Views, inc \in IncrementAmounts :
            IncrementCall(a, view, inc)
    \/ \E a \in DirectCallAgents : StorageStepCall(a)

SpecStorage == InitStorage /\ [][NextStorage]_vars

---------------------------------------------------------------------------
(* Specification Spec: the simulation loop. One tick is ModelStep (the     *)
(* head of AgentModel.step up to the shuffles of the scheduler), one       *)
(* AgentStep per activated agent, and EndTick.                             *)

\* the state after AgentModel.__init__ and the construction of the agents,
\* for a set of configurations
InitWorldStocked(configs, potables, greys, stored_biomasses, biomasses) ==
    /\ cfg \in configs
    /\ \E plants \in 1..initial_full_amount("plant") :
          amount = [a \in AgentTypes |-> IF a = "plant" THEN plants ELSE 1]
    /\ \E potable \in potables, grey \in greys, stored \in stored_biomasses,
          biomass \in biomasses :
          /\ RLe(biomass, RInt(char_capacity["plant"]["biomass"] * amount["plant"]))
          /\ balance = InitialBalance(potable, grey, stored, biomass)
    /\ storage_ratios = InitRatios(balance)
    /\ InitState

\* the same with an empty food storage
InitWorld(configs, potables, greys, biomasses) ==
    InitWorldStocked(configs, potables, greys, {Zero}, biomasses)

InitModel(configs) ==
    /\ InitWorld(configs, {Zero, RInt(3), RInt(30)}, {Zero, RInt(10)}, {Zero, RInt(15)})
    /\ SingleRun

Init == InitModel(Configs)

\* what two runs are compared on after each call of AgentModel.step: the
\* storage balances, the event instances, the activation order of the tick
\* and the termination outcome
Observation ==
    [balance |-> balance, events |-> events, order |-> stepped,
     is_terminated |-> is_terminated, termination_reason |-> termination_reason]

\* the calls of AgentModel.step made so far
ticks == time \div cfg.minutes_per_step

\* the first run of a repeated one records its observations
recorded(observation) == IF run = 1 THEN Append(history, observation) ELSE history

\* the simulation calls AgentModel.step for a bounded time past termination
MaxHours == TerminationHours + 2

\* mutant of timedelta_per_step: twice the configured minutes
timedelta_per_step_doubled == 2 * cfg.minutes_per_step

\* AgentModel.timedelta_per_step, in minutes
timedelta_per_step == cfg.minutes_per_step

\* AgentModel.step up to the agent activations: the clock, the termination
\* test, the cache entries keyed by type and id, and the shuffles of
\* PrioritizedRandomActivation.step
ModelStep ==
    /\ pc = "idle"
    /\ time < MaxHours * 60
    /\ run = 2 => ticks < Len(history)
    /\ time' = time + timedelta_per_step
    /\ IF time_is_up(time')
       THEN /\ is_terminated' = TRUE
            /\ termination_reason' = "time"
            /\ history' = recorded([Observation EXCEPT !.is_terminated = TRUE,
                                                       !.termination_reason = "time"])
            /\ UNCHANGED <<storage_ratios, queue, pc, stepped, reads, random_state>>
       ELSE /\ storage_ratios' = model_ratios(storage_ratios, agents, balance)
            /\ \E act \in activations(random_state, agents, cfg.priorities) :
                    /\ queue' = act.order
                    /\ random_state' = act.random_state
            /\ pc' = "stepping"
            /\ stepped' = <<>>
            /\ reads' = {}
            /\ UNCHANGED <<is_terminated, termination_reason, history>>
    /\ UNCHANGED <<balance, amount, call, ncalls, cfg, steps, agents, active,
                   cause_of_death, age, deprive, buffer, step_exchange_buffer,
                   missing_desired, growth, raised, deficits, db, threads, events,
                   event_multipliers, run, initial>>

\* `for agent in agents: agent.step()`: the next agent of the tick is stepped
AgentStep ==
    /\ pc = "stepping"
    /\ queue # <<>>
    /\ \E tape \in tapes(random_state, max_draws(Head(queue))) :
       \E r \in {agent_step([World EXCEPT !.tape = tape], Head(queue))} :
           /\ events' = r.w.events
           /\ event_multipliers' = r.w.event_multipliers
           /\ random_state' = advance(random_state, r.w.drawn)
           /\ balance' = r.w.balance
           /\ amount' = r.w.amount
           /\ storage_ratios' = r.w.storage_ratios
           /\ agents' = r.w.agents
           /\ active' = r.w.active
           /\ cause_of_death' = r.w.cause_of_death
           /\ age' = r.w.age
           /\ deprive' = r.w.deprive
           /\ buffer' = r.w.buffer
           /\ step_exchange_buffer' = r.w.step_exchange_buffer
           /\ missing_desired' = r.w.missing_desired
           /\ growth' = r.w.growth
           /\ reads' = r.w.reads
           /\ deficits' = r.w.deficits
           /\ raised' = r.err
           /\ pc' = IF r.err = "none" THEN "stepping" ELSE "raised"
           /\ stepped' = Append(stepped, Head(queue))
    /\ queue' = Tail(queue)
    /\ UNCHANGED <<call, ncalls, cfg, time, steps, is_terminated, termination_reason,
                   db, threads, run, history, initial>>

\* the end of PrioritizedRandomActivation.step: self.steps += 1
EndTick ==
    /\ pc = "stepping"
    /\ queue = <<>>
    /\ steps' = steps + 1
    /\ pc' = "idle"
    /\ history' = recorded(Observation)
    /\ UNCHANGED <<balance, amount, storage_ratios, call, ncalls, cfg, time,
                   is_terminated, termination_reason, agents, queue, stepped, active,
                   cause_of_death, age, deprive, buffer, step_exchange_buffer,
                   missing_desired, growth, reads, raised, deficits, db, threads,
                   events, event_multipliers, random_state, run, initial>>

Next == ModelStep \/ AgentStep \/ EndTick

Spec == Init /\ [][Next]_vars

---------------------------------------------------------------------------
(* Specification SpecCustom: the simulation loop for the configurations of *)
(* Spec and for those whose human declares a custom function that the      *)
(* module custom_funcs does not define.                                    *)

CustomConfigs ==
    Configs \cup {[c EXCEPT !.custom_function = "unknown_function"] : c \in Configs}

InitCustom == InitModel(CustomConfigs)

SpecCustom == InitCustom /\ [][Next]_vars

---------------------------------------------------------------------------
(* Specification SpecLifetime: the simulation loop for the configurations  *)
(* of Spec and for those whose plant has a char_lifetime of one hour.      *)

LifetimeConfigs == Configs \cup {[c EXCEPT !.lifetime = 1] : c \in Configs}

InitLifetime == InitModel(LifetimeConfigs)

SpecLifetime == InitLifetime /\ [][Next]_vars

---------------------------------------------------------------------------
(* Specification SpecPriorities: the simulation loop for priority lists    *)
(* that name every agent class or leave the plants out.                    *)

PriorityLists == {<<"storage", "inhabitants", "plants">>, <<"storage", "inhabitants">>}

PriorityConfigs ==
    {[c EXCEPT !.priorities = p] :
        c \in {k \in Configs : k.deprive_value = 5 /\ k.biomass_requires = {}},
        p \in PriorityLists}

InitPriorities == InitModel(PriorityConfigs)

SpecPriorities == InitPriorities /\ [][Next]_vars

---------------------------------------------------------------------------
(* Specification SpecHarvest: the simulation loop for plants whose biomass *)
(* output has the criteria 'grown', reproducing or not.                    *)

HarvestConfigs ==
    {[c EXCEPT !.harvest = TRUE] :
        c \in {k \in Configs : k.deprive_value = 5 /\ k.biomass_requires = {}}}

InitHarvest == InitModel(HarvestConfigs)

SpecHarvest == InitHarvest /\ [][Next]_vars

---------------------------------------------------------------------------
(* Specification SpecThreshold: the simulation loop for a human with an    *)
(* upper threshold on grey water or a lower threshold on potable water,    *)
(* from water storages whose ratios lie below, at and above the bounds.    *)

ThresholdConfigs ==
    {[c EXCEPT !.threshold_type = type] :
        c \in {k \in Configs : k.lifetime = 4 /\ ~k.reproduce},
        type \in {"upper", "lower"}}

InitThreshold ==
    /\ InitWorld(ThresholdConfigs, {RInt(1), RInt(3), RInt(30)},
                 {Zero, RInt(3), RInt(10)}, {Zero})
    /\ SingleRun

SpecThreshold == InitThreshold /\ [][Next]_vars

---------------------------------------------------------------------------
(* Specification SpecFood: the simulation loop for a human that also eats  *)
(* biomass, a plain or a mandatory input drawn from the food storage and   *)
(* then from the plant, with stocks below and above its demand, and whose  *)
(* water input has a deprivation budget or none.                           *)

FoodConfigs ==
    {[c EXCEPT !.food_value = 2, !.food_required = required, !.deprive_value = budget] :
        c \in {k \in Configs : k.lifetime = 4 /\ ~k.reproduce /\ k.deprive_value = 5
                                /\ k.biomass_requires = {}},
        required \in {"", "mandatory"},
        \* 0: the human's in_potable declares no deprive_value
        budget \in {0, 5}}

InitFood ==
    /\ InitWorldStocked(FoodConfigs, {Zero, RInt(3), RInt(30)}, {Zero},
                        {Zero, RInt(1), RInt(5)}, {Zero, RInt(1), RInt(5)})
    /\ SingleRun

SpecFood == InitFood /\ [][Next]_vars

---------------------------------------------------------------------------
(* Specification SpecOrder: the simulation loop of a seeded model whose    *)
(* human declares a random event and a threshold, the event after or       *)
(* before the threshold in its attributes, with storages on both sides of  *)
(* the threshold's bound.                                                  *)

OrderSeeds == {0, 1}

OrderConfigs ==
    {[c EXCEPT !.event_agent = "human", !.event_scope = "group",
               !.events_first = first, !.seed = seed] :
        \* storage first: the shuffle that draws precedes the human's step
        c \in {k \in ThresholdConfigs : /\ k.deprive_value = 5
                                         /\ k.biomass_requires = {}
                                         /\ k.priorities[1] = "storage"},
        first \in BOOLEAN, seed \in OrderSeeds}

InitOrder ==
    /\ InitWorld(OrderConfigs, {RInt(1), RInt(30)}, {Zero, RInt(3)}, {Zero})
    /\ SingleRun

SpecOrder == InitOrder /\ [][Next]_vars

---------------------------------------------------------------------------
(* Specification SpecEvents: the simulation loop with global entropy, the  *)
(* plant's event having a scope; no seed is given, so every roll of        *)
(* random_state.rand() can return any value.                               *)

EventScopes == {"group", "individual"}

EventConfigs ==
    {[c EXCEPT !.event_scope = scope] :
        c \in {k \in Configs : /\ k.biomass_requires = {}
                                /\ k.lifetime = 4
                                /\ k.deprive_value = 5
                                /\ ~k.reproduce},
        scope \in EventScopes}

\* a habitat short of potable water
InitEvents ==
    /\ InitWorld(EventConfigs, {R(1, 2), RInt(3)}, {Zero}, {Zero})
    /\ SingleRun

SpecEvents == InitEvents /\ [][Next]_vars

---------------------------------------------------------------------------
(* Specification SpecSeeded: the same configuration is run twice with the  *)
(* same seed. The first run records what it observes after every call of   *)
(* AgentModel.step; after some number of ticks a second model is           *)
(* constructed from the same configuration and advanced as far.            *)

Seeds == 0..(RandModulus - 1)

SeededConfigs == {[c EXCEPT !.seed = seed] : c \in EventConfigs, seed \in Seeds}

\* the state the constructors leave
Construction ==
    [balance |-> balance, amount |-> amount, storage_ratios |-> storage_ratios,
     time |-> time, steps |-> steps, is_terminated |-> is_terminated,
     termination_reason |-> termination_reason, agents |-> agents, queue |-> queue,
     stepped |-> stepped, active |-> active, cause_of_death |-> cause_of_death,
     age |-> age, deprive |-> deprive, buffer |-> buffer,
     step_exchange_buffer |-> step_exchange_buffer,
     missing_desired |-> missing_desired, growth |-> growth, reads |-> reads,
     raised |-> raised, deficits |-> deficits, events |-> events,
     event_multipliers |-> event_multipliers]

InitSeeded ==
    /\ InitWorld(SeededConfigs, {R(1, 2), RInt(3)}, {Zero}, {Zero})
    /\ run = 1
    /\ history = <<>>
    /\ initial = Construction

\* mutant of second_random_state: the second model goes on with the
\* generator of the first
second_random_state_shared == random_state

\* AgentModel.__init__ of the second model: RandomState(seed) again
second_random_state == RandomState(cfg.seed)

\* AgentModel.create_new with the configuration of the first run, after the
\* first run made at least one tick
Rerun ==
    /\ run = 1
    /\ pc = "idle"
    /\ history # <<>>
    /\ run' = 2
    /\ random_state' = second_random_state
    /\ balance' = initial.balance
    /\ amount' = initial.amount
    /\ storage_ratios' = initial.storage_ratios
    /\ time' = initial.time
    /\ steps' = initial.steps
    /\ is_terminated' = initial.is_terminated
    /\ termination_reason' = initial.termination_reason
    /\ agents' = initial.agents
    /\ queue' = initial.queue
    /\ stepped' = initial.stepped
    /\ active' = initial.active
    /\ cause_of_death' = initial.cause_of_death
    /\ age' = initial.age
    /\ deprive' = initial.deprive
    /\ buffer' = initial.buffer
    /\ step_exchange_buffer' = initial.step_exchange_buffer
    /\ missing_desired' = initial.missing_desired
    /\ growth' = initial.growth
    /\ reads' = initial.reads
    /\ raised' = initial.raised
    /\ deficits' = initial.deficits
    /\ events' = initial.events
    /\ event_multipliers' = initial.event_multipliers
    /\ UNCHANGED <<call, ncalls, cfg, pc, db, threads, history, initial>>

NextSeeded == ModelStep \/ AgentStep \/ EndTick \/ Rerun

SpecSeeded == InitSeeded /\ [][NextSeeded]_vars

---------------------------------------------------------------------------
(* Specification SpecReload: the simulation loop with events, in which the *)
(* model may be saved between two ticks and rebuilt by load_from_db.       *)

\* the constructor call of load_from_db for a saved agent: the dictionary
\* it passes has no agent_desc, and BaseAgent.__init__ subscripts it
constructor_error(agent_desc_given) == IF agent_desc_given THEN "none" ELSE "TypeError"

\* load_from_db on the saved agent states: `for storage in agents['storage']`
\* needs a saved agent of class storage and builds the first one
load_from_db_error(saved_agents) ==
    IF \A i \in 1..Len(saved_agents) : agent_class[saved_agents[i]] # "storage"
    THEN "KeyError"
    ELSE constructor_error(FALSE)

\* snapshot() between two ticks, then load_from_db of the saved state: the
\* exception of load_from_db leaves the caller without a rebuilt model, the
\* running model is not touched
Reload ==
    /\ pc = "idle"
    /\ run = 0
    /\ raised' = load_from_db_error(agents)
    /\ pc' = IF raised' = "none" THEN "idle" ELSE "raised"
    /\ UNCHANGED <<balance, amount, storage_ratios, call, ncalls, cfg, time, steps,
                   is_terminated, termination_reason, agents, queue, stepped, active,
                   cause_of_death, age, deprive, buffer, step_exchange_buffer,
                   missing_desired, growth, reads, deficits, db, threads, events,
                   event_multipliers, random_state, run, history, initial>>

NextReload == ModelStep \/ AgentStep \/ EndTick \/ Reload

SpecReload == InitEvents /\ [][NextReload]_vars

---------------------------------------------------------------------------
(* PlantAgent._calculate_co2_scale, and specification SpecCo2: one direct  *)
(* call of it for a carbon-fixation plant, at a model time not yet cached. *)

\* co2_ppm = max(350, min(1000, co2_ratio_in * 1e6))
co2_ppm(co2_ratio_in) ==
    RMax(RInt(350), RMin(RInt(1000), RMul(co2_ratio_in, RInt(1000000))))

\* tt = (163 - t_mean) / (5 - 0.1 * t_mean) with t_mean = 25
co2_compensation == RDiv(RInt(163 - 25), RSub(RInt(5), RMul(R(1, 10), RInt(25))))

\* the ratio of increased co2 uptake: c3 plants only, 1 otherwise
co2_uptake_ratio(carbon_fixation, ppm) ==
    IF carbon_fixation = "c3"
    THEN RDiv(RMul(RSub(ppm, co2_compensation),
                   RAdd(RInt(350), RMul(RInt(2), co2_compensation))),
              RMul(RAdd(ppm, RMul(RInt(2), co2_compensation)),
                   RSub(RInt(350), co2_compensation)))
    ELSE One

\* np.interp(co2_ppm, [350, 700], [1, 1.37]): linear between the two points,
\* constant outside
transpiration_efficiency_factor(ppm) ==
    IF RLe(ppm, RInt(350)) THEN One
    ELSE IF RLe(RInt(700), ppm) THEN R(137, 100)
    ELSE RAdd(One, RMul(R(37, 100), RDiv(RSub(ppm, RInt(350)), RInt(350))))

cu_fields == {"co2", "fertilizer", "o2", "biomass"}
te_fields == {"potable", "h2o"}

\* sv_adjusted[prefix]: the baseline step values of one direction, scaled.
\* No attribute of the plant is excluded (no in_biomass, no out_<agent_type>).
sv_adjust(baseline, cu, te) ==
    [c \in {d \in DOMAIN baseline : d \in cu_fields \cup te_fields} |->
        IF c \in cu_fields THEN RMul(baseline[c], cu)
        ELSE RMul(baseline[c], RDiv(One, te))]

\* `correction = (value / net_outputs) * sv_error; corrected = value + correction`
sv_correct(adjusted_out, net_outputs, sv_error) ==
    [c \in DOMAIN adjusted_out |->
        RAdd(adjusted_out[c], RMul(RDiv(adjusted_out[c], net_outputs), sv_error))]

\* the rebalancing: `if sv_error > value_eps`, the outputs are corrected
sv_rebalance(adjusted_in, adjusted_out, net_inputs, net_outputs) ==
    IF RLt(Zero, RSub(net_inputs, net_outputs))
    THEN IF net_outputs = Zero
         THEN [in |-> adjusted_in, out |-> adjusted_out, err |-> "ZeroDivisionError"]
         ELSE [in |-> adjusted_in,
               out |-> sv_correct(adjusted_out, net_outputs, RSub(net_inputs, net_outputs)),
               err |-> "none"]
    ELSE [in |-> adjusted_in, out |-> adjusted_out, err |-> "none"]

\* the adjusted step values computed by _calculate_co2_scale
sv_adjusted(baseline_in, baseline_out, cu, te) ==
    sv_rebalance(sv_adjust(baseline_in, cu, te), sv_adjust(baseline_out, cu, te),
                 RSum(sv_adjust(baseline_in, cu, te)), RSum(sv_adjust(baseline_out, cu, te)))

\* the scale factors returned: adjusted / baseline, 1 where nothing was adjusted
sv_scale(baseline, adjusted) ==
    [c \in DOMAIN baseline |->
        IF c \notin DOMAIN adjusted \/ adjusted[c] = Zero THEN One
        ELSE RDiv(adjusted[c], baseline[c])]

\* _calculate_co2_scale for one step index of a plant
calculate_co2_scale(carbon_fixation, co2_ratio_in, baseline_in, baseline_out) ==
    sv_adjusted(baseline_in, baseline_out,
                co2_uptake_ratio(carbon_fixation, co2_ppm(co2_ratio_in)),
                transpiration_efficiency_factor(co2_ppm(co2_ratio_in)))

\* the step values of the plant's flows at the step index, per direction:
\* plants that exchange water, and plants that do not
Co2BaselinesIn ==
    {[c \in {"co2", "potable", "fertilizer"} |->
        CASE c = "co2" -> RInt(x) [] c = "potable" -> RInt(y) [] OTHER -> One] :
     x \in {2, 4}, y \in {3, 5}}
    \cup {[c \in {"co2", "fertilizer"} |-> IF c = "co2" THEN RInt(x) ELSE One] : x \in {2, 4}}
Co2BaselinesOut ==
    {[c \in {"o2", "h2o", "biomass"} |->
        CASE c = "o2" -> One [] c = "h2o" -> RInt(x) [] OTHER -> RInt(y)] :
     x \in {3, 5}, y \in {2, 4}}
    \cup {[c \in {"o2", "biomass"} |-> IF c = "o2" THEN One ELSE RInt(y)] : y \in {2, 4}}

\* the co2 ratios of the connected atmosphere: 200, 500 and 2000 ppm
Co2Ratios == {R(200, 1000000), R(500, 1000000), R(2000, 1000000)}

InitCo2 ==
    /\ cfg = DirectCallConfig
    /\ amount = [a \in AgentTypes |-> initial_full_amount(a)]
    /\ balance = InitialBalance(Zero, Zero, Zero, Zero)
    /\ storage_ratios = InitRatios(balance)
    /\ InitFields

\* one call self._calculate_co2_scale(step_num)
Co2ScaleCall(carbon_fixation, co2_ratio_in, baseline_in, baseline_out) ==
    /\ ncalls < MaxCalls
    /\ \E r \in {calculate_co2_scale(carbon_fixation, co2_ratio_in,
                                      baseline_in, baseline_out)} :
          call' = [op |-> "co2_scale", carbon_fixation |-> carbon_fixation,
                   co2_ratio_in |-> co2_ratio_in,
                   baseline_in |-> baseline_in, baseline_out |-> baseline_out,
                   adjusted_in |-> r.in, adjusted_out |-> r.out,
                   scale_in |-> sv_scale(baseline_in, r.in),
                   scale_out |-> sv_scale(baseline_out, r.out),
                   err |-> r.err]
    /\ ncalls' = ncalls + 1
    /\ UNCHANGED <<balance, amount, storage_ratios>>
    /\ UNCHANGED agent_vars

\* the calls whose exact arithmetic stays within 32-bit integers: a c3 plant
\* above 350 ppm (co2_uptake_ratio > 1) is called without water flows
Co2Exact(carbon_fixation, co2_ratio_in, baseline_in, baseline_out) ==
    \/ carbon_fixation = "c4"
    \/ co2_ppm(co2_ratio_in) = RInt(350)
    \/ DOMAIN baseline_in \cup DOMAIN baseline_out \subseteq cu_fields

NextCo2 ==
    \E carbon_fixation \in {"c3", "c4"}, co2_ratio_in \in Co2Ratios,
       baseline_in \in Co2BaselinesIn, baseline_out \in Co2BaselinesOut :
        /\ Co2Exact(carbon_fixation, co2_ratio_in, baseline_in, baseline_out)
        /\ Co2ScaleCall(carbon_fixation, co2_ratio_in, baseline_in, baseline_out)

SpecCo2 == InitCo2 /\ [][NextCo2]_vars

---------------------------------------------------------------------------
(* Specification SpecCo2Cache: the calls of _calculate_co2_scale by the    *)
(* plants of a model over its ticks, with the cache the model keeps in     *)
(* storage_ratios['co2'].                                                  *)

\* str(self.model.time)
time_str(t) == <<"str", t>>

\* `co2 = dict(time=0, co2_uptake_ratio=1, transpiration_efficiency_factor=1)`
NewCo2Cache ==
    [time |-> <<"int", 0>>, co2_uptake_ratio |-> One,
     transpiration_efficiency_factor |-> One]

\* self.model.storage_ratios.get('co2', None), created when missing
co2_cache(ratios) == IF "co2" \in DOMAIN ratios THEN ratios["co2"] ELSE NewCo2Cache

\* the cache after `if co2['time'] == str(self.model.time)`: kept on a hit,
\* else computed from the caller's fixation type and co2 ratio
co2_cached(cache, t, carbon_fixation, co2_ratio_in) ==
    IF cache.time = time_str(t) THEN cache
    ELSE [time |-> time_str(t),
          co2_uptake_ratio |-> co2_uptake_ratio(carbon_fixation, co2_ppm(co2_ratio_in)),
          transpiration_efficiency_factor |->
              transpiration_efficiency_factor(co2_ppm(co2_ratio_in))]

\* the baselines of plants without water flows
DryBaselinesIn == {b \in Co2BaselinesIn : DOMAIN b \subseteq cu_fields}
DryBaselinesOut == {b \in Co2BaselinesOut : DOMAIN b \subseteq cu_fields}

\* one call self._calculate_co2_scale(step_num) of a plant in the current tick
Co2CachedCall(carbon_fixation, co2_ratio_in, baseline_in, baseline_out) ==
    /\ ncalls < MaxCalls
    /\ \E c \in {co2_cached(co2_cache(storage_ratios), time, carbon_fixation,
                              co2_ratio_in)} :
       \E r \in {sv_adjusted(baseline_in, baseline_out, c.co2_uptake_ratio,
                               c.transpiration_efficiency_factor)} :
          /\ storage_ratios' = with_key(storage_ratios, "co2", c)
          /\ call' = [op |-> "co2_scale", carbon_fixation |-> carbon_fixation,
                      co2_ratio_in |-> co2_ratio_in,
                      baseline_in |-> baseline_in, baseline_out |-> baseline_out,
                      co2_uptake_ratio |-> c.co2_uptake_ratio,
                      adjusted_in |-> r.in, adjusted_out |-> r.out,
                      scale_in |-> sv_scale(baseline_in, r.in),
                      scale_out |-> sv_scale(baseline_out, r.out),
                      err |-> r.err]
    /\ ncalls' = ncalls + 1
    /\ UNCHANGED <<balance, amount>>
    /\ UNCHANGED <<cfg, time, steps, is_terminated, termination_reason, agents, queue, pc,
                   stepped, active, cause_of_death, age, deprive, buffer,
                   step_exchange_buffer, missing_desired, growth, reads, raised, deficits,
                   db, threads, events, event_multipliers, random_state, run, history,
                   initial>>

\* AgentModel.step between the calls: `self.time += self.timedelta_per_step()`
Co2NextTick ==
    /\ call # NoCall
    /\ ncalls < MaxCalls
    /\ time < TerminationHours * 60
    /\ time' = time + timedelta_per_step
    /\ UNCHANGED <<balance, amount, storage_ratios, call, ncalls>>
    /\ UNCHANGED <<cfg, steps, is_terminated, termination_reason, agents, queue, pc,
                   stepped, active, cause_of_death, age, deprive, buffer,
                   step_exchange_buffer, missing_desired, growth, reads, raised, deficits,
                   db, threads, events, event_multipliers, random_state, run, history,
                   initial>>

NextCo2Cache ==
    \/ \E carbon_fixation \in {"c3", "c4"}, co2_ratio_in \in Co2Ratios,
          baseline_in \in DryBaselinesIn, baseline_out \in DryBaselinesOut :
            Co2CachedCall(carbon_fixation, co2_ratio_in, baseline_in, baseline_out)
    \/ Co2NextTick

SpecCo2Cache == InitCo2 /\ [][NextCo2Cache]_vars

---------------------------------------------------------------------------
(* GeneralAgent._init_currency_exchange, and specification SpecExchange:   *)
(* direct calls of it on a freshly constructed agent of the catalog, for   *)
(* the `connections` kwarg and the flow units of its two attributes.       *)

\* attr_details['char_capacity_<currency>']['unit'] of every storage
char_capacity_unit(storage, currency) == "kg"

\* the loop over connected_agents. s is [selected, err].
RECURSIVE init_connections(_, _, _, _, _)
init_connections(s, a, currency, attr_unit, connected_agents) ==
    IF connected_agents = <<>> \/ s.err # "none" THEN s
    ELSE IF Head(connected_agents) # a /\ Head(connected_agents) \notin AgentTypes
    THEN [s EXCEPT !.err = "IndexError"]     \* get_agents_by_type(...)[0] of no agent
    ELSE IF currency \notin DOMAIN char_capacity[Head(connected_agents)]
    THEN [s EXCEPT !.err = "KeyError"]       \* attr_details['char_capacity_' + currency]
    ELSE IF char_capacity_unit(Head(connected_agents), currency) # attr_unit
    THEN [s EXCEPT !.err = "AgentInitializationError"]
    ELSE init_connections([s EXCEPT !.selected = Append(@, Head(connected_agents))],
                          a, currency, attr_unit, Tail(connected_agents))

\* the connections of one attribute wired as r: then the deprive budget and
\* the criteria buffer of the attribute
init_attr_fields(s, a, f, r) ==
    IF r.err # "none" THEN [s EXCEPT !.err = r.err]
    ELSE [s EXCEPT !.selected_storage = @ @@ (f.attr :> r.selected),
                   !.deprive = IF f.deprive_value > 0
                               THEN @ @@ (f.attr :> f.deprive_value * initial_full_amount(a))
                               ELSE @,
                   !.buffer = IF f.criteria.cr_buffer > 0
                              THEN @ @@ (f.attr :> f.criteria.cr_buffer) ELSE @]

\* one pass of the loop over attrs. conn is [present, agents]: present is
\* FALSE when self.connections has no entry for the attribute.
init_attr(s, a, f, conn, attr_unit) ==
    IF ~conn.present THEN [s EXCEPT !.err = "KeyError"]
    ELSE IF Len(conn.agents) = 0 THEN [s EXCEPT !.err = "AgentInitializationError"]
    ELSE init_attr_fields(s, a, f,
            init_connections([selected |-> <<>>, err |-> "none"], a, f.currency,
                             attr_unit, conn.agents))

RECURSIVE init_attrs(_, _, _, _, _)
init_attrs(s, a, fs, connections, flow_unit) ==
    IF fs = <<>> \/ s.err # "none" THEN s
    ELSE init_attrs(init_attr(s, a, Head(fs), connections[Head(fs).attr],
                              flow_unit[Head(fs).attr]),
                    a, Tail(fs), connections, flow_unit)

\* GeneralAgent._init_currency_exchange. Returns [selected_storage, deprive,
\* buffer, err].
init_currency_exchange(a, connections, flow_unit) ==
    init_attrs([selected_storage |-> <<>>, deprive |-> <<>>, buffer |-> <<>>,
                err |-> "none"],
               a, flows(a), connections, flow_unit)

\* the entries of the `connections` kwarg for one attribute: none at all, an
\* empty list, storages of the model, a type of which the model has no agent
ConnectionChoices ==
    {[present |-> FALSE, agents |-> <<>>]} \cup
    {[present |-> TRUE, agents |-> c] :
        c \in {<<>>, <<"water_storage">>, <<"food_storage">>, <<"plant">>,
               <<"greenhouse">>, <<"plant", "food_storage">>,
               <<"water_storage", "food_storage">>}}

FlowUnits == {"kg", "L"}

ExchangeAgents == {"human", "plant"}

flow_attrs(a) == {flows(a)[i].attr : i \in 1..Len(flows(a))}

InitExchange ==
    /\ cfg = DirectCallConfig
    /\ amount = [a \in AgentTypes |-> initial_full_amount(a)]
    /\ balance = InitialBalance(Zero, Zero, Zero, Zero)
    /\ storage_ratios = InitRatios(balance)
    /\ InitFields

\* one call agent._init_currency_exchange() after the agents were constructed
InitExchangeCall(a, connections, flow_unit) ==
    /\ ncalls < MaxCalls
    /\ \E r \in {init_currency_exchange(a, connections, flow_unit)} :
          call' = [op |-> "init_currency_exchange", agent |-> a,
                   connections |-> connections, flow_unit |-> flow_unit,
                   selected_storage |-> r.selected_storage, deprive |-> r.deprive,
                   buffer |-> r.buffer, err |-> r.err]
    /\ ncalls' = ncalls + 1
    /\ UNCHANGED <<balance, amount, storage_ratios>>
    /\ UNCHANGED agent_vars

NextExchange ==
    \E a \in ExchangeAgents :
        \E connections \in [flow_attrs(a) -> ConnectionChoices],
           flow_unit \in [flow_attrs(a) -> FlowUnits] :
            InitExchangeCall(a, connections, flow_unit)

SpecExchange == InitExchange /\ [][NextExchange]_vars

---------------------------------------------------------------------------
(* AgentModel.snapshot and AgentModel._branch, and specification           *)
(* SpecSnapshot: threads that each load the same saved state, step the     *)
(* model once and snapshot it (testConcurrentBranching). The branch row    *)
(* carries a version counter: the session writes an incremented version_id *)
(* with UPDATE ... WHERE version_id = <the version it loaded>, holds the    *)
(* row until it commits or rolls back, and raises StaleDataError when no   *)
(* row matches.                                                            *)

\* the step_num of the last state saved on a branch among `states`, -1 if none
last_saved_step(states, branch) ==
    IF \A x \in states : x.branch # branch THEN -1
    ELSE CHOOSE n \in {x.step_num : x \in {y \in states : y.branch = branch}} :
            \A x \in states : x.branch = branch => x.step_num <= n

\* mutant of must_branch: a state saved at the same step does not branch
must_branch_later(last_saved, step_num) == last_saved > step_num

\* `last_saved_branch_state is not None and
\*  last_saved_branch_state.step_num >= self.step_num`
must_branch(last_saved, step_num) == last_saved >= 0 /\ last_saved >= step_num

\* AgentModel._branch: a new SnapshotBranch whose parent is the current one
branch(th) == [th EXCEPT !.parent = th.branch, !.branch = 0, !.version = 0]

\* the session has an incremented version_id still to write
needs_flush(th) == th.pending # 0 /\ ~th.flushed

\* the UPDATE of the pending branch row finds the version the session loaded
version_is_current(d, th) == d.version[th.pending] = th.version

\* the thread may touch the pending row: no other session holds it
row_is_free(d, th, t) == d.lock[th.pending] \in {0, t}

\* AgentModel.load_from_db in a thread's own session
Load(t) ==
    /\ threads[t].pc = "start"
    /\ threads' = [threads EXCEPT ![t] =
                      [@ EXCEPT !.pc = "loaded",
                                !.branch = SavedState.branch,
                                !.version = db.version[SavedState.branch],
                                !.step_num = SavedState.step_num,
                                !.seen = db.states]]
    /\ UNCHANGED <<db, balance, amount, storage_ratios, call, ncalls>>
    /\ UNCHANGED <<cfg, time, steps, is_terminated, termination_reason, agents, queue, pc,
                   stepped, active, cause_of_death, age, deprive, buffer,
                   step_exchange_buffer, missing_desired, growth, reads, raised, deficits,
                   events, event_multipliers, random_state, run, history, initial>>

\* agent_model.step() of the loaded model: step_num is scheduler.steps
StepLoaded(t) ==
    /\ threads[t].pc = "loaded"
    /\ threads' = [threads EXCEPT ![t] = [@ EXCEPT !.pc = "snapshot", !.step_num = @ + 1]]
    /\ UNCHANGED <<db, balance, amount, storage_ratios, call, ncalls>>
    /\ UNCHANGED <<cfg, time, steps, is_terminated, termination_reason, agents, queue, pc,
                   stepped, active, cause_of_death, age, deprive, buffer,
                   step_exchange_buffer, missing_desired, growth, reads, raised, deficits,
                   events, event_multipliers, random_state, run, history, initial>>

\* the head of snapshot(): `if self.snapshot_branch.version_id is not None:
\* self.snapshot_branch.version_id += 1` (None for a branch never flushed)
BumpVersion(t) ==
    /\ threads[t].pc = "snapshot"
    /\ threads' = [threads EXCEPT ![t] =
                      [@ EXCEPT !.pc = "bumped",
                                !.pending = IF @ # 0 THEN @ ELSE threads[t].branch]]
    /\ UNCHANGED <<db, balance, amount, storage_ratios, call, ncalls>>
    /\ UNCHANGED <<cfg, time, steps, is_terminated, termination_reason, agents, queue, pc,
                   stepped, active, cause_of_death, age, deprive, buffer,
                   step_exchange_buffer, missing_desired, growth, reads, raised, deficits,
                   events, event_multipliers, random_state, run, history, initial>>

\* the query of the last state saved on the branch, then the branch test
select_last(th, visible) ==
    IF must_branch(last_saved_step(visible, th.branch), th.step_num)
    THEN [branch(th) EXCEPT !.pc = "queried"]
    ELSE [th EXCEPT !.pc = "queried"]

\* the query for last_saved_branch_state. With autoflush the session first
\* writes the pending version; the query reads the states committed by now
\* (fresh) or those of the session's first read.
QueryLast(t, autoflush, fresh) ==
    /\ threads[t].pc = "bumped"
    /\ IF autoflush /\ needs_flush(threads[t])
       THEN /\ row_is_free(db, threads[t], t)
            /\ IF version_is_current(db, threads[t])
               THEN /\ db' = [db EXCEPT !.lock[threads[t].pending] = t]
                    /\ threads' = [threads EXCEPT ![t] =
                          select_last([@ EXCEPT !.flushed = TRUE],
                                      IF fresh THEN db.states ELSE @.seen)]
               ELSE /\ threads' = [threads EXCEPT ![t] = [@ EXCEPT !.pc = "stale"]]
                    /\ UNCHANGED db
       ELSE /\ threads' = [threads EXCEPT ![t] =
                  select_last(@, IF fresh THEN db.states ELSE @.seen)]
            /\ UNCHANGED db
    /\ UNCHANGED <<balance, amount, storage_ratios, call, ncalls>>
    /\ UNCHANGED <<cfg, time, steps, is_terminated, termination_reason, agents, queue, pc,
                   stepped, active, cause_of_death, age, deprive, buffer,
                   step_exchange_buffer, missing_desired, growth, reads, raised, deficits,
                   events, event_multipliers, random_state, run, history, initial>>

\* the rows after a successful commit: the pending version written and the
\* row released, the new branch inserted under the next id, the state saved
committed(d, th, id) ==
    [version |-> IF th.branch = 0
                 THEN Append(IF th.pending # 0
                             THEN [d.version EXCEPT ![th.pending] = @ + 1]
                             ELSE d.version, 1)
                 ELSE IF th.pending # 0
                 THEN [d.version EXCEPT ![th.pending] = @ + 1]
                 ELSE d.version,
     lock |-> IF th.branch = 0
              THEN Append(IF th.pending # 0
                          THEN [d.lock EXCEPT ![th.pending] = 0] ELSE d.lock, 0)
              ELSE IF th.pending # 0
              THEN [d.lock EXCEPT ![th.pending] = 0]
              ELSE d.lock,
     states |-> d.states \cup {[branch |-> id, step_num |-> th.step_num]}]

\* the id of the branch the snapshot is saved on
saved_branch(d, th) == IF th.branch = 0 THEN Len(d.version) + 1 ELSE th.branch

\* db.session.add(...) and db.session.commit()
Commit(t) ==
    /\ threads[t].pc = "queried"
    /\ IF needs_flush(threads[t]) /\ ~version_is_current(db, threads[t])
       THEN /\ row_is_free(db, threads[t], t)
            /\ threads' = [threads EXCEPT ![t] = [@ EXCEPT !.pc = "stale"]]
            /\ UNCHANGED db
       ELSE /\ needs_flush(threads[t]) => row_is_free(db, threads[t], t)
            /\ db' = committed(db, threads[t], saved_branch(db, threads[t]))
            /\ threads' = [threads EXCEPT ![t] =
                  [@ EXCEPT !.pc = "done", !.pending = 0, !.flushed = FALSE,
                            !.branch = saved_branch(db, threads[t]),
                            !.result = saved_branch(db, threads[t])]]
    /\ UNCHANGED <<balance, amount, storage_ratios, call, ncalls>>
    /\ UNCHANGED <<cfg, time, steps, is_terminated, termination_reason, agents, queue, pc,
                   stepped, active, cause_of_death, age, deprive, buffer,
                   step_exchange_buffer, missing_desired, growth, reads, raised, deficits,
                   events, event_multipliers, random_state, run, history, initial>>

\* `except StaleDataError`: rollback, _branch(), then snapshot() again
HandleStale(t) ==
    /\ threads[t].pc = "stale"
    /\ db' = [db EXCEPT !.lock = [b \in DOMAIN @ |-> IF @[b] = t THEN 0 ELSE @[b]]]
    /\ threads' = [threads EXCEPT ![t] =
          [branch(@) EXCEPT !.pc = "snapshot", !.pending = 0, !.flushed = FALSE,
                            !.retries = @ + 1]]
    /\ UNCHANGED <<balance, amount, storage_ratios, call, ncalls>>
    /\ UNCHANGED <<cfg, time, steps, is_terminated, termination_reason, agents, queue, pc,
                   stepped, active, cause_of_death, age, deprive, buffer,
                   step_exchange_buffer, missing_desired, growth, reads, raised, deficits,
                   events, event_multipliers, random_state, run, history, initial>>

InitSnapshot ==
    /\ cfg = DirectCallConfig
    /\ amount = [a \in AgentTypes |-> initial_full_amount(a)]
    /\ balance = InitialBalance(Zero, Zero, Zero, Zero)
    /\ storage_ratios = InitRatios(balance)
    /\ InitFields

NextSnapshot ==
    \E t \in Threads :
        \/ Load(t)
        \/ StepLoaded(t)
        \/ BumpVersion(t)
        \/ \E autoflush \in BOOLEAN, fresh \in BOOLEAN : QueryLast(t, autoflush, fresh)
        \/ Commit(t)
        \/ HandleStale(t)

SpecSnapshot == InitSnapshot /\ [][NextSnapshot]_vars

---------------------------------------------------------------------------
(* Claims about StorageAgent, checked under SpecStorage.                   *)

\* the member currencies of a view that storage a holds, and their total
Members(a, view) == view_currencies(balance[a], view)
ViewTotal(a, view) == RSum([c \in Members(a, view) |-> balance[a][c]])

\* the call just made is increment(view, inc) on a view the storage knows
IncrementMade ==
    /\ call'.op = "increment"
    /\ call'.view \in agent_currency_dict(call'.agent)

\* C2: increment(currency, a) with a > 0 on balance b sets the balance to
\* min(b + a, capacity*amount) and returns {currency: d} with d the amount
\* applied, d = max(min(a, capacity*amount - b), 0).
C2_PositiveIncrementReturnsApplied ==
    [][(IncrementMade /\ RLt(Zero, call'.inc) /\ is_currency(call'.view)) =>
        LET a == call'.agent
            v == call'.view
            capacity == RInt(char_capacity[a][v] * amount[a])
            b == balance[a][v]
        IN  /\ balance'[a][v] = RMin(RAdd(b, call'.inc), capacity)
            /\ call'.flow = [c \in {v} |-> RMax(RMin(call'.inc, RSub(capacity, b)), Zero)]
      ]_vars

\* C3: increment(view, a) with a < 0 on a currency-class view with total
\* balance T > 0 reduces every member c by |a| * balance[c] / T (balances
\* before the call), floored at 0.
C3_NegativeClassSplit ==
    [][(IncrementMade /\ RLt(call'.inc, Zero) /\ ~is_currency(call'.view)
            /\ RLt(Zero, ViewTotal(call'.agent, call'.view))) =>
        LET a == call'.agent
            T == ViewTotal(a, call'.view)
        IN  \A c \in Members(a, call'.view) :
                balance'[a][c] =
                    RMax(RSub(balance[a][c],
                              RDiv(RMul(RAbs(call'.inc), balance[a][c]), T)), Zero)
      ]_vars

\* C3 witness: water = {potable 30, grey 10} decremented by 20 gave up 15 and 5
C3_Witness ==
    /\ call.op = "increment" /\ call.view = "water" /\ call.inc = RInt(-20)
    /\ call.flow = [c \in {"potable", "grey"} |-> IF c = "potable" THEN RInt(15) ELSE RInt(5)]
    /\ balance[call.agent]["potable"] = RInt(15)
    /\ balance[call.agent]["grey"] = RInt(5)

\* C4: increment changes no balance when the amount is 0 (returning {}) and
\* when the amount is negative and the view's total is <= 0 (returning a zero
\* for every member of the view); no division by the zero total happens.
C4_NoOpIncrements ==
    [][IncrementMade =>
        /\ call'.err # "ZeroDivisionError"
        /\ call'.inc = Zero => (balance' = balance /\ call'.flow = <<>> /\ call'.err = "none")
        /\ (RLt(call'.inc, Zero) /\ RLe(ViewTotal(call'.agent, call'.view), Zero)) =>
              /\ balance' = balance
              /\ call'.err = "none"
              /\ call'.flow = [c \in Members(call'.agent, call'.view) |-> Zero]
      ]_vars

\* C4 witness: a negative increment met an empty class view
C4_Witness ==
    /\ call.op = "increment" /\ call.view = "water" /\ RLt(call.inc, Zero)
    /\ call.flow = [c \in {"potable", "grey"} |-> Zero]
    /\ call.err = "none"

\* C5: a positive increment on a currency-class view fails with an error and
\* changes no balance.
C5_PositiveClassRejected ==
    [][(IncrementMade /\ RLt(Zero, call'.inc) /\ ~is_currency(call'.view)) =>
        (call'.err = "ValueError" /\ balance' = balance)]_vars

\* C5 witness: increment("water", 150) was rejected
C5_Witness ==
    /\ call.op = "increment" /\ call.view = "water" /\ call.inc = RInt(150)
    /\ call.err = "ValueError"

\* C6: for one storage the ratio of a currency is balance[c] / (sum of the
\* storage's balances) when balance[c] > 0 and 0 otherwise; with all balances
\* 0 every ratio is 0 and nothing is divided by zero; otherwise the ratios of
\* the positive balances sum to 1.
C6_StorageRatios ==
    [][call'.op = "step" =>
        LET a == call'.agent
            total == RSum(balance[a])
            ratios == storage_ratios'[storage_id(a)]
        IN  /\ call'.err = "none"
            /\ DOMAIN ratios = DOMAIN char_capacity[a]
            /\ \A c \in DOMAIN ratios :
                  ratios[c] = IF RLt(Zero, balance[a][c])
                              THEN R(balance[a][c][1] * total[2], balance[a][c][2] * total[1])
                              ELSE Zero
            /\ (\A c \in DOMAIN ratios : balance[a][c] = Zero) =>
                  \A c \in DOMAIN ratios : ratios[c] = Zero
            /\ (\E c \in DOMAIN ratios : RLt(Zero, balance[a][c])) =>
                  RSum([c \in {d \in DOMAIN ratios : RLt(Zero, balance[a][d])} |-> ratios[c]]) = One
      ]_vars

\* C6 witness: ratios were recomputed for a storage drained to 0 by earlier
\* calls: every ratio is 0
C6_Witness ==
    /\ call.op = "step" /\ call.agent = "water_storage" /\ call.err = "none"
    /\ ncalls >= 2
    /\ \A c \in {"potable", "grey"} :
          balance["water_storage"][c] = Zero /\ storage_ratios["water_storage"][c] = Zero

---------------------------------------------------------------------------
(* Claims about the simulation loop, checked under Spec.                   *)

\* C1: from balances within 0 <= balance[c] <= capacity[c]*amount, after any
\* sequence of increments and agent steps every storage still in the model
\* satisfies 0 <= balance[c] <= capacity[c]*amount for every currency c.
C1_BalanceWithinCapacity ==
    \A a \in AgentTypes :
        active[a] =>
            \A c \in DOMAIN balance[a] :
                /\ RLe(Zero, balance[a][c])
                /\ RLe(balance[a][c], RInt(char_capacity[a][c] * amount[a]))

\* C7: the shared cache is rebuilt once per tick before any agent steps and
\* no entry of it changes while the agents of the tick are being stepped.
C7_CacheFrozenWhileStepping ==
    [][pc = "stepping" => storage_ratios' = storage_ratios]_vars

\* the position of an agent's class in model.priorities
ClassRank(a) ==
    CHOOSE i \in 1..Len(cfg.priorities) : cfg.priorities[i] = agent_class[a]

\* C8: within one tick the agents are stepped one after another, each once,
\* and every agent of a class earlier in model.priorities is stepped before
\* any agent of a later class; the order inside a class is free.
C8_PriorityOrder ==
    LET tick == stepped \o queue
    IN  /\ \A i, j \in 1..Len(tick) :
              i < j => (tick[i] # tick[j] /\ ClassRank(tick[i]) <= ClassRank(tick[j]))
        /\ pc = "stepping" => Len(tick) = Len(InitialAgents) - Cardinality({a \in AgentTypes :
                                    ~active[a] /\ \A i \in 1..Len(tick) : tick[i] # a})

\* C8 witness: a tick ran to its end with the inhabitants first and the two
\* storages in the order food_storage, water_storage
C8_Witness ==
    /\ pc = "stepping" /\ queue = <<>>
    /\ stepped = <<"human", "food_storage", "water_storage", "plant">>

\* the step of agent a is the transition being taken
StepOf(a) == pc = "stepping" /\ queue # <<>> /\ Head(queue) = a

\* C9: an agent with amount 1, deprivation budget B and rate d per tick
\* survives floor(B/d) consecutive deficit ticks, the budget dropping by d
\* each time and the amount unchanged; it loses an instance only on a deficit
\* tick whose remaining budget is below d, and it is destroyed by deprivation
\* only in the tick in which its amount reaches 0 (deficit tick floor(B/d)+1).
C9_DeprivationSurvival ==
    [][StepOf("human") =>
        LET a == "human"
            B == cfg.deprive_value
            d == delta_per_step
            k == deficits[a]["in_potable"]
            k2 == deficits'[a]["in_potable"]
        IN  /\ amount[a] = 1
            /\ deprive[a]["in_potable"] = RInt(B - d * k)
            /\ (k2 = k + 1 /\ k < B \div d) =>
                  /\ active'[a] /\ amount'[a] = 1
                  /\ deprive'[a]["in_potable"] = RSub(deprive[a]["in_potable"], RInt(d))
            /\ (k2 = k + 1 /\ k >= B \div d) =>
                  (~active'[a] /\ cause_of_death'[a] = "deprive" /\ amount'[a] = 0)
            /\ amount'[a] < amount[a] =>
                  (k2 = k + 1 /\ RLt(deprive[a]["in_potable"], RInt(d)))
            /\ cause_of_death'[a] = "deprive" =>
                  (amount'[a] = 0 /\ k2 = (B \div d) + 1)
      ]_vars

\* C9 witness: with B = 5 and d = 1 the human died of deprivation in its
\* sixth consecutive deficit tick
C9_Witness ==
    /\ cfg.deprive_value = 5 /\ cfg.minutes_per_step = 60
    /\ cause_of_death["human"] = "deprive"
    /\ deficits["human"]["in_potable"] = 6
    /\ amount["human"] = 0

\* C10 as stated: a non-reproducing plant with lifetime L > 1 sets grown in
\* the tick that starts with agent_step_num = L - 1.
C10_GrownExactlyAtLifetime ==
    [][(StepOf("plant") /\ ~cfg.reproduce
            /\ ~growth["plant"].grown /\ growth'["plant"].grown) =>
        growth["plant"].agent_step_num = lifetime("plant") - 1]_vars

\* C10 amended: a non-reproducing plant with lifetime L > 1 sets grown in the
\* first tick that starts with agent_step_num >= L - 1 (agent_step_num =
\* L - 1 when a tick is one hour), never earlier, and is destroyed (removed
\* from the scheduler) in the very next tick.
C10_GrownThenDestroyed ==
    [][(StepOf("plant") /\ ~cfg.reproduce) =>
        LET g == growth["plant"]
            L == lifetime("plant")
        IN  /\ (g.agent_step_num < L - 1) => ~growth'["plant"].grown
            /\ (g.agent_step_num >= L - 1 /\ g.delay_start = 0) => growth'["plant"].grown
            /\ (~g.grown /\ growth'["plant"].grown) =>
                  /\ g.agent_step_num - hours_per_step < L - 1
                  /\ hours_per_step = 1 => g.agent_step_num = L - 1
            /\ g.grown =>
                  /\ ~active'["plant"]
                  /\ cause_of_death'["plant"] = "lifetime"
                  /\ \A i \in 1..Len(agents') : agents'[i] # "plant"
      ]_vars

\* C10 witness: with two-hour ticks a plant of lifetime 4 was destroyed at the
\* end of its life cycle
C10_Witness ==
    /\ ~cfg.reproduce /\ cfg.lifetime = 4 /\ cfg.minutes_per_step = 120
    /\ cause_of_death["plant"] = "lifetime"
    /\ ~active["plant"]

\* C11: for a reproducing plant the tick after its terminal grown tick resets
\* amount to full_amount, agent_step_num, age, current_growth and growth_rate
\* to 0 and grown to false, exchanges no currency, and does not destroy the
\* agent.
C11_ReproduceResets ==
    [][(StepOf("plant") /\ cfg.reproduce /\ growth["plant"].grown
            /\ growth["plant"].delay_start <= 0) =>
        /\ amount'["plant"] = growth["plant"].full_amount
        /\ growth'["plant"].agent_step_num = 0
        /\ age'["plant"] = 0
        /\ growth'["plant"].current_growth = Zero
        /\ growth'["plant"].growth_rate = Zero
        /\ ~growth'["plant"].grown
        /\ balance' = balance
        /\ active'["plant"] /\ agents' = agents /\ cause_of_death' = cause_of_death
      ]_vars

\* C11 witness: a field that started one instance short (its deprivation
\* budget is still that of one instance) has been reset to its full amount
C11_Witness ==
    /\ cfg.reproduce /\ time > 0 /\ active["plant"]
    /\ age["plant"] = 0 /\ growth["plant"].agent_step_num = 0 /\ ~growth["plant"].grown
    /\ amount["plant"] = 2
    /\ deprive["plant"]["in_potable"] = RInt(2)

---------------------------------------------------------------------------
(* Claims about PlantAgent._calculate_co2_scale, checked under SpecCo2.    *)

\* C13: after _calculate_co2_scale the sum of the adjusted output step values
\* equals the sum of the adjusted input step values, whether the adjustment
\* had left the inputs larger than the outputs or the outputs larger than the
\* inputs.
C13_Co2ScaleConservesMass ==
    call.op = "co2_scale" =>
        (call.err = "none" /\ RSum(call.adjusted_out) = RSum(call.adjusted_in))

\* C20: every call of AgentModel.step that returns without hitting termination
\* has advanced the model time by minutes_per_step and the step number by 1:
\* between calls time = steps * minutes_per_step (both start at 0), and while
\* the agents of a tick are stepped the clock is one tick ahead of the counter.
C20_TimeAndStepAdvance ==
    /\ (pc = "idle" /\ ~is_terminated) => time = steps * cfg.minutes_per_step
    /\ pc = "stepping" => time = (steps + 1) * cfg.minutes_per_step

C20_Witness ==
    /\ pc = "idle" /\ ~is_terminated
    /\ cfg.minutes_per_step = 120 /\ steps = 3 /\ time = 360

---------------------------------------------------------------------------
(* Claims about configuration errors, checked under SpecCustom.            *)

\* C17: an agent declaring a custom function name that is not registered is
\* rejected when the agents are initialized: the model never starts stepping
\* with it and no tick is partially executed before the failure.
C17_UnknownCustomFunctionRejected ==
    (\E a \in AgentTypes : custom_function_raises(a)) =>
        (pc = "idle" /\ time = 0 /\ steps = 0 /\ stepped = <<>>)

---------------------------------------------------------------------------
(* Claims about exceptions in agent steps, checked under SpecLifetime.     *)

\* C18: once the model is running no agent step raises: every step of a
\* GeneralAgent or PlantAgent returns or destroys the agent, also on a
\* deficit, when deprivation empties the agent, when a threshold is breached
\* and when a plant's agent_step_num reaches or passes its lifetime.
C18_NoStepRaises == raised = "none" /\ pc # "raised"

---------------------------------------------------------------------------
(* Claims about GeneralAgent._init_currency_exchange, under SpecExchange.  *)

\* the attribute has no connected storage
Unconnected(conn) == ~conn.present \/ conn.agents = <<>>

\* the flow unit of the attribute differs from the capacity unit of one of
\* its connected storages
UnitMismatch(conn, currency, attr_unit) ==
    /\ conn.present
    /\ \E i \in 1..Len(conn.agents) :
          /\ conn.agents[i] \in AgentTypes
          /\ currency \in DOMAIN char_capacity[conn.agents[i]]
          /\ char_capacity_unit(conn.agents[i], currency) # attr_unit

\* C16: a flow attribute with no connected storage, or whose flow unit differs
\* from the capacity unit of a connected storage, makes _init_currency_exchange
\* raise AgentInitializationError; after a successful call every in/out
\* attribute has at least one connected storage.
C16_WiringErrorsAtInit ==
    call.op = "init_currency_exchange" =>
        /\ (\E i \in 1..Len(flows(call.agent)) :
               LET f == flows(call.agent)[i]
               IN  \/ Unconnected(call.connections[f.attr])
                   \/ UnitMismatch(call.connections[f.attr], f.currency,
                                   call.flow_unit[f.attr]))
            => call.err = "AgentInitializationError"
        /\ call.err = "none" =>
              \A attr \in flow_attrs(call.agent) :
                  /\ attr \in DOMAIN call.selected_storage
                  /\ Len(call.selected_storage[attr]) >= 1

---------------------------------------------------------------------------
(* Claims about AgentModel.snapshot, checked under SpecSnapshot.           *)

instances_of(a, ev) ==
    IF ev.event_type \in DOMAIN events[a] THEN events[a][ev.event_type] ELSE <<>>

\* C15: in every reachable state an agent still in the simulation has at
\* most one active instance of an event of scope 'group' and at most as many
\* as its current amount of an event of scope 'individual'.
C15_EventInstancesBounded ==
    \A a \in AgentTypes : \A i \in 1..Len(event_attrs(a)) :
        active[a] =>
            Len(instances_of(a, event_attrs(a)[i])) <=
                IF event_attrs(a)[i].scope = "group" THEN 1 ELSE amount[a]

gain(a, c) == RSub(balance'[a][c], balance[a][c])

\* the balance of c stays below the capacity of storage a after the transition
below_capacity(a, c) == RLt(balance'[a][c], RInt(char_capacity[a][c] * amount'[a]))

\* C30: an 'out' flow with two connected storages offers each the same share:
\* when the plant's biomass output fills neither of its two storages, both
\* gain the same amount.
C30_OutputSplitEvenly ==
    [][(/\ StepOf("plant")
        /\ RLt(Zero, gain("plant", "biomass"))
        /\ below_capacity("plant", "biomass")
        /\ below_capacity("food_storage", "biomass"))
       => gain("food_storage", "biomass") = gain("plant", "biomass")]_vars

\* the comparison of the criteria of flow f of agent a on the cached ratio
criteria_passes(a, f) ==
    opp(f.criteria.cr_limit, storage_ratios[criteria_storage(a, f)][f.currency],
        f.criteria.cr_value)

\* C28: a passing criteria comparison is a pass-through: when the plant is
\* about to step and the cached potable ratio passes the criteria of its
\* in_potable attribute, _get_step_value does not return 0 at the gate,
\* whatever the buffer counter holds.
C28_PassingComparisonPassesThrough ==
    (StepOf("plant") /\ criteria_passes("plant", flow_of("plant", "in", "potable")))
        => criteria_gate(World, "plant", flow_of("plant", "in", "potable")).open

\* the cached ratio that threshold th of agent a reads in the one storage
\* connected for its currency
threshold_ratio(a, th) ==
    storage_ratios[storage_id(threshold_storages(a, th.currency)[1])][th.currency]

\* C22: in the human's step, a cached ratio strictly beyond the bound of its
\* threshold (above an upper bound, below a lower bound) destroys the human
\* and none of its flows is processed: no balance changes, nothing is logged,
\* no deprivation budget moves. A ratio equal to the bound never kills, and a
\* threshold kill happens only beyond the bound.
C22_ThresholdKill ==
    [][StepOf("human") =>
        LET th == thresholds("human")[1]
            ratio == threshold_ratio("human", th)
            beyond == IF th.type = "upper" THEN RLt(th.value, ratio)
                      ELSE RLt(ratio, th.value)
        IN  /\ beyond =>
                /\ ~active'["human"]
                /\ cause_of_death'["human"] = "threshold"
                /\ \A i \in 1..Len(agents') : agents'[i] # "human"
                /\ balance' = balance
                /\ step_exchange_buffer'["human"] = {}
                /\ deprive' = deprive
                /\ amount' = amount
            /\ ratio = th.value => cause_of_death'["human"] # "threshold"
            /\ cause_of_death'["human"] = "threshold" => beyond
      ]_vars

\* the human was killed by its lower threshold on potable water
C22_Witness ==
    /\ cfg.threshold_type = "lower"
    /\ cause_of_death["human"] = "threshold"
    /\ ~active["human"]

\* the biomass the human's in_biomass attribute finds in its connections
food_available ==
    RAdd(balance["food_storage"]["biomass"], balance["plant"]["biomass"])

\* the target of the human's in_biomass attribute
food_target == RInt(cfg.food_value * hours_per_step * amount["human"])

\* the ledger entries of the last step of a for a prefix and a currency
logged(a, prefix, currency) ==
    {e \in step_exchange_buffer[a] : e.prefix = prefix /\ e.currency = currency}

\* C25: when the human's mandatory in_biomass attribute finds less biomass
\* than its target, in a step its earlier attributes let it reach, the step
\* stops there: no biomass is taken from any connection, the later out_grey
\* output is not processed (no grey water added, nothing logged), the human
\* stays active, and the potable water taken by the earlier in_potable
\* attribute stays taken and logged.
C25_MandatoryDeficitStops ==
    [][(/\ StepOf("human")
        /\ active["human"]
        /\ cfg.food_required = "mandatory"
        /\ RLt(food_available, food_target)
        /\ cause_of_death'["human"] \notin {"threshold", "deprive"})
       => /\ active'["human"]
          /\ \A s \in {"food_storage", "plant"} :
                balance'[s]["biomass"] = balance[s]["biomass"]
          /\ balance'["water_storage"]["grey"] = balance["water_storage"]["grey"]
          /\ \A e \in step_exchange_buffer'["human"] :
                e.prefix = "in" /\ e.currency = "potable"
          /\ \A e \in step_exchange_buffer'["human"] :
                RSub(balance["water_storage"]["potable"],
                     balance'["water_storage"]["potable"]) = e.amount
          /\ step_exchange_buffer'["human"] = {} =>
                balance'["water_storage"]["potable"] = balance["water_storage"]["potable"]
      ]_vars

\* the human has just stopped at its mandatory biomass deficit, after taking
\* potable water in the same step
C25_Witness ==
    /\ pc = "stepping"
    /\ stepped # <<>>
    /\ stepped[Len(stepped)] = "human"
    /\ cfg.food_required = "mandatory"
    /\ active["human"]
    /\ RLt(food_available, food_target)
    /\ RLt(Zero, food_available)
    /\ logged("human", "in", "potable") # {}
    /\ logged("human", "out", "grey") = {}

\* the biomass the human's step took from storage s
taken(s) == RSub(balance[s]["biomass"], balance'[s]["biomass"])

\* C29: the human's in_biomass flow of quantity q over food storage then
\* plant takes min(q, balance) from the food storage and min(what remains,
\* balance) from the plant: the plant gives only once the food storage is
\* empty, the total is min(q, total available) and no balance goes negative.
C29_InputDistribution ==
    [][(/\ StepOf("human")
        /\ active["human"]
        /\ cfg.food_value > 0
        /\ active'["human"]
        /\ ~(cfg.food_required = "mandatory" /\ RLt(food_available, food_target)))
       => /\ taken("food_storage") = RMin(food_target, balance["food_storage"]["biomass"])
          /\ taken("plant") = RMin(RSub(food_target, taken("food_storage")),
                                   balance["plant"]["biomass"])
          /\ RLt(Zero, taken("plant")) => balance'["food_storage"]["biomass"] = Zero
          /\ RAdd(taken("food_storage"), taken("plant")) = RMin(food_target, food_available)
          /\ \A s \in {"food_storage", "plant"} : RLe(Zero, balance'[s]["biomass"])
      ]_vars

\* the human has just eaten from both connections: the food storage is
\* empty and the plant gave the rest
C29_Witness ==
    /\ pc = "stepping"
    /\ stepped # <<>>
    /\ stepped[Len(stepped)] = "human"
    /\ active["human"]
    /\ logged("human", "in", "biomass") # {}
    /\ \E e \in logged("human", "in", "biomass") : e.storage = "food_storage"
    /\ \E e \in logged("human", "in", "biomass") : e.storage = "plant" /\ RLt(Zero, e.amount)
    /\ balance["food_storage"]["biomass"] = Zero
    /\ RLt(Zero, balance["plant"]["biomass"])

\* the human's step ends at its mandatory biomass deficit
mandatory_abort ==
    /\ cfg.food_value > 0
    /\ cfg.food_required = "mandatory"
    /\ RLt(food_available, food_target)
    /\ cause_of_death'["human"] \notin {"threshold", "deprive"}

\* C24: the human's age advances by hours_per_step in every tick in which
\* its step runs, except in a tick ended by the mandatory deficit or by the
\* threshold kill, where the age is left as it was.
C24_AgeAdvancesUnlessAborted ==
    [][(StepOf("human") /\ active["human"])
       => IF mandatory_abort \/ cause_of_death'["human"] = "threshold"
          THEN age'["human"] = age["human"]
          ELSE age'["human"] = age["human"] + hours_per_step
      ]_vars

\* the plant's step runs GeneralAgent.step: it is neither delayed nor
\* reproducing
growing_tick ==
    /\ StepOf("plant")
    /\ active["plant"]
    /\ growth["plant"].delay_start = 0
    /\ ~(growth["plant"].grown /\ reproduce("plant"))

\* the plant's desired in_potable attribute met a deficit in this step
desired_deficit == deficits'["plant"]["in_potable"] = deficits["plant"]["in_potable"] + 1

C27_RequiresSkipsUnconsumed ==
    [][(/\ StepOf("human")
        /\ active["human"]
        /\ balance'["water_storage"]["potable"] = balance["water_storage"]["potable"])
       => /\ balance'["water_storage"]["grey"] = balance["water_storage"]["grey"]
          /\ \A e \in step_exchange_buffer'["human"] : e.prefix # "out"
      ]_vars

\* C23: in a step of the human that ends with the threshold kill, event
\* processing has not run, whether the event attribute is declared before or
\* after the threshold: no random number is drawn, no event instance is
\* created or aged and no event multiplier is written.
C23_ThresholdKillBeforeEvents ==
    [][(/\ StepOf("human")
        /\ active["human"]
        /\ cause_of_death'["human"] = "threshold")
       => /\ random_state' = random_state
          /\ events' = events
          /\ event_multipliers' = event_multipliers
      ]_vars

\* C21: load_from_db of the state snapshot() saved returns a model
\* equivalent to the saved one: no exception, and the same step number,
\* model time, random-generator state and, for every agent, the same
\* balances, age, amount, buffer, deprive budget, growth counters and event
\* instances.
C21_SnapshotRoundTrip ==
    [][Reload =>
         /\ raised' = "none"
         /\ UNCHANGED <<steps, time, random_state, balance, age, amount, buffer,
                        deprive, growth, events>>
      ]_vars

\* the slots of an event of the plant when its step begins
max_slots(ev) == IF ev.scope = "group" THEN 1 ELSE amount["plant"]

\* the sum of the magnitudes of the instances the step left
RECURSIVE magnitudes(_)
magnitudes(instances) ==
    IF instances = <<>> THEN Zero
    ELSE RAdd(instances[1].magnitude, magnitudes(Tail(instances)))

\* C31: after a step of the plant that processed its event, with M slots
\* (1 for scope 'group', the amount for 'individual') and k >= 1 instances
\* left, the event multiplier is (sum of the k magnitudes + (M - k)) / M;
\* with no instance left the event has no entry in events and none in
\* event_multipliers; events and event_multipliers have the same keys.
C31_EventMultiplier ==
    [][growing_tick =>
         \A i \in 1..Len(event_attrs("plant")) :
            LET ev == event_attrs("plant")[i]
                left == IF ev.event_type \in DOMAIN events'["plant"]
                        THEN events'["plant"][ev.event_type] ELSE <<>>
            IN  /\ DOMAIN events'["plant"] = DOMAIN event_multipliers'["plant"]
                /\ ev.event_type \in DOMAIN events'["plant"] => Len(left) >= 1
                /\ Len(left) >= 1 =>
                      event_multipliers'["plant"][ev.event_type] =
                          RDiv(RAdd(magnitudes(left), RInt(max_slots(ev) - Len(left))),
                               RInt(max_slots(ev)))
      ]_vars

\* the plant of two holds one instance of its individual event: one slot of
\* two is filled and the multiplier is (1/2 + 1) / 2
C31_Witness ==
    /\ cfg.event_scope = "individual"
    /\ active["plant"]
    /\ amount["plant"] = 2
    /\ Len(instances_of("plant", event_attrs("plant")[1])) = 1
    /\ event_multipliers["plant"]["blight"] = R(3, 4)

\* the plant's step put biomass into the food storage: its output fired
harvest_fired ==
    balance'["food_storage"]["biomass"] # balance["food_storage"]["biomass"]

\* C32: the output of a plant with criteria 'grown' fires only in a tick
\* whose flows run with grown set, and only in the first such tick of the
\* cycle, the one that sets the flag; in that tick the plant's other
\* attributes exchange nothing (no potable water is taken). This holds for
\* reproducing and for non-reproducing plants.
C32_GrownTickOnce ==
    [][StepOf("plant") =>
         /\ harvest_fired => growth'["plant"].grown /\ ~growth["plant"].grown
         /\ (growing_tick /\ growth'["plant"].grown) =>
               balance'["water_storage"]["potable"] = balance["water_storage"]["potable"]
      ]_vars

\* C33: every call of _calculate_co2_scale scales the caller with the uptake
\* ratio of its own fixation type at the ambient co2: 1 for a plant that is
\* not c3, the c3 response curve at the clamped co2 for a c3 plant, whichever
\* plant was stepped before it in the tick.
C33_UptakeRatioByFixationType ==
    (call # NoCall /\ call.op = "co2_scale" /\ "co2_uptake_ratio" \in DOMAIN call) =>
        call.co2_uptake_ratio =
            IF call.carbon_fixation = "c3"
            THEN co2_uptake_ratio("c3", co2_ppm(call.co2_ratio_in))
            ELSE One

\* C34: is_terminated is set with reason 'time' only at the end of a tick,
\* after the storage ratios were refreshed and the agents of that tick were
\* stepped: the tick in which the time condition becomes true still steps
\* its agents.
C34_TerminationAfterActivation ==
    [][(~is_terminated /\ is_terminated')
       => /\ termination_reason' = "time"
          /\ pc = "stepping"
          /\ queue = <<>>
          /\ stepped # <<>>
      ]_vars

\* the number of times agent a was stepped in the current tick
times_stepped(a) == Cardinality({i \in 1..Len(stepped) : stepped[i] = a})

\* C35: when the activation of a tick is over, every agent still in the
\* scheduler was stepped exactly once in the tick, whatever its class, and no
\* agent was stepped twice.
C35_EveryAgentSteppedOnce ==
    /\ \A a \in AgentTypes : times_stepped(a) <= 1
    /\ (pc = "stepping" /\ queue = <<>>) =>
          \A i \in 1..Len(agents) : times_stepped(agents[i]) = 1

\* C36: the scheduler steps no destroyed agent, and the step in which a
\* plant is destroyed at the end of its lifecycle, which destroys it before
\* any flow is processed, changes no storage balance.
C36_DestroyedAgentIsInert ==
    [][\A a \in AgentTypes :
          StepOf(a) =>
              /\ active[a]
              /\ (cause_of_death[a] = "none" /\ cause_of_death'[a] = "lifetime") =>
                    balance' = balance
      ]_vars

\* the deprive_value of an attribute of a flow agent
deprive_value_of(a, attr) ==
    LET f == CHOOSE g \in {flows(a)[i] : i \in 1..Len(flows(a))} : g.attr = attr
    IN  f.deprive_value

\* no deprivation budget is negative, no amount is negative, and an agent
\* still in the simulation has a positive amount
budgets_and_amounts_sound ==
    \A a \in AgentTypes :
        /\ \A attr \in DOMAIN deprive[a] : RLe(Zero, deprive[a][attr])
        /\ amount[a] >= 0
        /\ active[a] => amount[a] > 0

\* C37: in every state each deprivation budget is >= 0, no amount is
\* negative and no live agent has amount <= 0 (an agent whose amount reaches
\* 0 is destroyed by the step that brought it there); after a step of an
\* agent without deficit for an attribute, the budget of that attribute is
\* at most deprive_value * amount.
C37_DepriveAndAmountBounds ==
    [][/\ budgets_and_amounts_sound
       /\ budgets_and_amounts_sound'
       /\ \A a \in {"human", "plant"} :
            (StepOf(a) /\ active'[a]) =>
                \A attr \in DOMAIN deprive'[a] :
                    deficits'[a][attr] = 0 =>
                        RLe(deprive'[a][attr],
                            RInt(deprive_value_of(a, attr) * amount'[a]))
      ]_vars

\* a field of two plants on two-hour steps lost one member in its second
\* deficit step: the budget is exactly 0 and the one plant left is alive
C37_Witness ==
    /\ cfg.minutes_per_step = 120
    /\ active["plant"]
    /\ amount["plant"] = 1
    /\ deficits["plant"]["in_potable"] = 2
    /\ deprive["plant"]["in_potable"] = Zero

\* C38: time-based termination is absorbing: from a state with is_terminated
\* set, every step leaves is_terminated true and termination_reason 'time',
\* activates and steps no agent, changes no storage balance and leaves
\* step_num unchanged.
C38_TerminationAbsorbing ==
    [][is_terminated =>
          /\ is_terminated'
          /\ termination_reason' = "time"
          /\ pc' = "idle"
          /\ UNCHANGED <<queue, stepped, balance, steps, amount, age>>
      ]_vars

\* AgentModel.step was called again after the call that terminated the run
C38_Witness ==
    /\ is_terminated
    /\ termination_reason = "time"
    /\ time_is_up(time - cfg.minutes_per_step)

---------------------------------------------------------------------------
(* Specification SpecNewGame: the task new_game of the celery worker, which *)
(* steps a model in batches and pushes the records of each batch to the    *)
(* list `records:<game_id>`. FairNewGame adds that the worker process      *)
(* keeps running the task.                                                 *)

\* `BUFFER_SIZE = 100`, scaled down
BUFFER_SIZE == 2

\* the largest num_steps a game is started with
MaxNumSteps == 4

\* the batches of the list that are told apart: of a longer list the last
\* MaxBatches are kept
MaxBatches == 4

\* the hours of the 'time' termination condition of the games: met within
\* MaxNumSteps ticks, or not
NewGameTerminations == {2, TerminationHours}

NewGameConfigs ==
    {[c EXCEPT !.termination = t] :
        c \in {k \in Configs : /\ k.priorities[1] = "storage"
                               /\ k.deprive_value = 5
                               /\ k.lifetime = 4
                               /\ ~k.reproduce
                               /\ k.biomass_requires = {}},
        t \in NewGameTerminations}

InitNewGame == InitModel(NewGameConfigs)

\* `redis_conn.rpush(key, json.dumps(records))`, on the batches told apart
rpush(records, batch) ==
    IF Len(records) < MaxBatches THEN Append(records, batch)
    ELSE Append(Tail(records), batch)

\* `min(BUFFER_SIZE, num_steps - model.step_num)`
batch_size(num_steps, step_num) ==
    IF num_steps - step_num < BUFFER_SIZE THEN num_steps - step_num ELSE BUFFER_SIZE

\* `model.step_num <= num_steps and not model.is_terminated`
loop_continues(num_steps, step_num, terminated) ==
    step_num <= num_steps /\ ~terminated

\* the task is in the stepping loop at position at
new_game_at(at) == call.op = "new_game" /\ call.at = at

\* new_game(username, game_config, num_steps) up to `batch_num = 0`
NewGame(num_steps) ==
    /\ call = NoCall
    /\ call' = [op |-> "new_game", num_steps |-> num_steps, at |-> "while",
                n_steps |-> 0, first_tick |-> 0, records |-> <<>>, pushed |-> 0]
    /\ UNCHANGED <<balance, amount, storage_ratios, ncalls>>
    /\ UNCHANGED agent_vars

\* the test of the while loop and, when it passes, `n_steps = min(...)`
WhileTest ==
    /\ new_game_at("while")
    /\ IF loop_continues(call.num_steps, steps, is_terminated)
       THEN call' = [call EXCEPT !.at = "for",
                                 !.n_steps = batch_size(call.num_steps, steps),
                                 !.first_tick = ticks]
       ELSE call' = [call EXCEPT !.at = "done"]
    /\ UNCHANGED <<balance, amount, storage_ratios, ncalls>>
    /\ UNCHANGED agent_vars

\* `for _ in range(n_steps): model.step()`: the next call of model.step
ForStep ==
    /\ new_game_at("for")
    /\ ticks - call.first_tick < call.n_steps
    /\ ModelStep

\* the end of the batch: the records are pushed with their n_steps
PushBatch ==
    /\ new_game_at("for")
    /\ pc = "idle"
    /\ ticks - call.first_tick = call.n_steps
    /\ call' = [call EXCEPT !.at = "while",
                            !.records = rpush(@, call.n_steps),
                            !.pushed = @ + call.n_steps]
    /\ UNCHANGED <<balance, amount, storage_ratios, ncalls>>
    /\ UNCHANGED agent_vars

NextNewGame ==
    \/ \E num_steps \in 0..MaxNumSteps : NewGame(num_steps)
    \/ WhileTest
    \/ ForStep
    \/ AgentStep
    \/ EndTick
    \/ PushBatch

SpecNewGame == InitNewGame /\ [][NextNewGame]_vars

\* a call of model.step is due or running
step_pending ==
    /\ new_game_at("for")
    /\ \/ pc = "stepping"
       \/ pc = "idle" /\ ticks - call.first_tick < call.n_steps

\* the worker process runs the task without pause: the statements of
\* new_game are executed when they are reached, and a call of model.step
\* that is due is made and returns
FairNewGame ==
    /\ SpecNewGame
    /\ WF_vars(\E num_steps \in 0..MaxNumSteps : NewGame(num_steps))
    /\ WF_vars(WhileTest)
    /\ WF_vars(PushBatch)
    /\ []<>~step_pending

\* the stepping loop was left: by its test, or by an exception of a step
new_game_left == new_game_at("done") \/ pc = "raised"

\* C39: the stepping loop of new_game terminates for every num_steps >= 0:
\* after num_steps ticks of a model that does not terminate, or after the
\* batch in which the model terminated.
C39_NewGameLoopExits == <>new_game_left

\* the batches pushed are of at most BUFFER_SIZE ticks and their n_steps
\* never sum to more than num_steps
new_game_batches_bounded ==
    call.op = "new_game" =>
        /\ \A i \in 1..Len(call.records) : call.records[i] \in 0..BUFFER_SIZE
        /\ call.pushed <= call.num_steps
        /\ steps <= call.num_steps

---------------------------------------------------------------------------
(* Specification SpecGetSteps: the background task get_steps_background of *)
(* the server, which polls the batches stored under                        *)
(* `model_records:<user>:<game>:<batch>` and emits them to a session,      *)
(* beside a producer that stores batches and a handler that sets the stop  *)
(* flag of the session. FairGetSteps adds that the task keeps polling.     *)

\* the keyword max_retries of get_steps_background (5), scaled down
max_retries == 2

\* the largest n_steps a session asks for
MaxRequested == 3

\* the most batches the producer stores, and the most steps of a batch
MaxRecords == 3

MaxBatchSteps == 2

\* retrieve_steps: the batches from batch_num on are read until a key is
\* missing or holds a batch of 0 steps; model_records[i] is the n_steps of
\* the batch stored under key i - 1
RECURSIVE retrieve_steps(_, _)
retrieve_steps(model_records, batch) ==
    IF batch + 1 > Len(model_records) \/ model_records[batch + 1] = 0
    THEN [n_steps |-> 0, n_batches |-> 0]
    ELSE LET rest == retrieve_steps(model_records, batch + 1)
         IN  [n_steps |-> model_records[batch + 1] + rest.n_steps,
              n_batches |-> 1 + rest.n_batches]

\* the task polls at position at
get_steps_at(at) == call.op = "get_steps_background" /\ call.at = at

\* get_steps_background(data, user_id, sid) up to the loop, for
\* min_step_num = 0; model_records and stop_task are the keys of the store
GetStepsBackground(requested) ==
    /\ call = NoCall
    /\ call' = [op |-> "get_steps_background", n_steps |-> requested, at |-> "sleeping",
                batch_num |-> 0, retries_left |-> max_retries, step_count |-> 0,
                steps_sent |-> FALSE, emitted |-> "none", retrieved |-> 0,
                model_records |-> <<>>, stop_task |-> FALSE]
    /\ UNCHANGED <<balance, amount, storage_ratios, ncalls>>
    /\ UNCHANGED agent_vars

\* the producer stores the next batch
StoreBatch(batch_steps) ==
    /\ call.op = "get_steps_background"
    /\ Len(call.model_records) < MaxRecords
    /\ call' = [call EXCEPT !.model_records = Append(@, batch_steps)]
    /\ UNCHANGED <<balance, amount, storage_ratios, ncalls>>
    /\ UNCHANGED agent_vars

\* get_steps_handler of a later request for the game:
\* `redis_conn.set('stop_task:{}'.format(sid), 1)`
SetStopTask ==
    /\ call.op = "get_steps_background"
    /\ ~call.stop_task
    /\ call' = [call EXCEPT !.stop_task = TRUE]
    /\ UNCHANGED <<balance, amount, storage_ratios, ncalls>>
    /\ UNCHANGED agent_vars

\* the locals after `step_count += output['n_steps']` and the test
\* `if step_count == 0`
poll_counted(c, output) ==
    LET step_count == c.step_count + output.n_steps
    IN  [c EXCEPT !.batch_num = @ + output.n_batches,
                  !.step_count = step_count,
                  !.retrieved = output.n_steps,
                  !.retries_left = IF step_count = 0 THEN @ - 1 ELSE max_retries,
                  !.emitted = IF step_count = 0 THEN @ ELSE "step_data_handler"]

\* `if step_count >= n_steps or retries_left <= 0`
poll_finished(c) ==
    IF c.step_count >= c.n_steps \/ c.retries_left <= 0
    THEN [c EXCEPT !.emitted = "steps_sent", !.steps_sent = TRUE, !.at = "done"]
    ELSE [c EXCEPT !.at = "sleeping"]

\* `socketio.sleep(timeout)` at the head of the loop
Sleep ==
    /\ get_steps_at("sleeping")
    /\ call' = [call EXCEPT !.at = "polling"]
    /\ UNCHANGED <<balance, amount, storage_ratios, ncalls>>
    /\ UNCHANGED agent_vars

\* the rest of one pass of `while not steps_sent`
Poll ==
    /\ get_steps_at("polling")
    /\ call' = IF call.stop_task THEN [call EXCEPT !.at = "stopped"]
               ELSE poll_finished(poll_counted(call,
                        retrieve_steps(call.model_records, call.batch_num)))
    /\ UNCHANGED <<balance, amount, storage_ratios, ncalls>>
    /\ UNCHANGED agent_vars

NextGetSteps ==
    \/ \E requested \in 0..MaxRequested : GetStepsBackground(requested)
    \/ \E batch_steps \in 0..MaxBatchSteps : StoreBatch(batch_steps)
    \/ SetStopTask
    \/ Sleep
    \/ Poll

SpecGetSteps == InitCo2 /\ [][NextGetSteps]_vars

\* the background task is started and keeps running; the producer and the
\* stop handler may act or not
FairGetSteps ==
    /\ SpecGetSteps
    /\ WF_vars(\E requested \in 0..MaxRequested : GetStepsBackground(requested))
    /\ WF_vars(Sleep)
    /\ WF_vars(Poll)

\* the task has left its loop
get_steps_ended == get_steps_at("done") \/ get_steps_at("stopped")

\* C40: get_steps_background always ends: with 'steps_sent' once the step
\* count reaches n_steps or after max_retries consecutive polls without new
\* steps (also when steps were delivered before the producer stopped), or
\* when the stop flag of its session is seen.
C40_GetStepsEnds == <>get_steps_ended

\* 'steps_sent' is emitted exactly when the loop is left by its test, and a
\* poll that found nothing before any step was delivered uses up a retry
get_steps_sound ==
    call.op = "get_steps_background" =>
        /\ call.steps_sent <=> call.at = "done"
        /\ call.emitted = "steps_sent" <=> call.at = "done"
        /\ call.at = "done" => (call.step_count >= call.n_steps \/ call.retries_left = 0)
        /\ call.retries_left \in 0..max_retries
        /\ call.step_count = 0 => call.emitted \in {"none", "steps_sent"}

=========================================================================
